---- MODULE Spec2Model ----
(***************************************************************************)
(* Transaction execution (ethcore/src/executive.rs): transact, call,       *)
(* create, exec_vm, enact_result and finalize of Executive, over a world   *)
(* state with a snapshot stack, a Substate per invocation and an           *)
(* interpreter that acts through the externalities. Beside it, the block   *)
(* downloader's BlockCollection (sync/src/blocks.rs).                      *)
(***************************************************************************)
EXTENDS Integers, Sequences, FiniteSets, TLC

VARIABLES
    state,      \* world state: address -> account, for the accounts that exist
    snapshots,  \* State's snapshot stack
    info,       \* EnvInfo of the block
    pc,         \* "idle" | "vm" | "done": where transact stands
    tx,         \* the transaction and options given to transact
    frames,     \* the invocations whose interpreter is running, outermost first
    substate,   \* transact's Substate (the top-level invocation's caller)
    next_id,    \* number of invocations started so far
    ret,        \* the invocation that returned in the last step, as observed at its return
    result,     \* what transact returned
    begin,      \* world state and snapshot stack when transact was called
    history,    \* the logs emitted, contracts created and invocations reverted so far
    tracers,    \* the tracers alive: transact's, then the subtracer of each invocation
    trace,      \* Executed.trace: <<>> or the one top-level Trace
    threads,    \* the threads of control, the first being the caller's: "running" | "joining"
    collection, \* the downloader's BlockCollection (sync/src/blocks.rs)
    returned,   \* the last operation on the collection and what it returned
    debug_assertions    \* whether the build checks debug_assert!

\* the state transition proper, and the tracers and threads beside it
transition == <<state, snapshots, info, pc, tx, frames, substate, next_id, ret, result, begin,
                history>>

\* the block downloader's collection, beside the Executive
sync == <<collection, returned, debug_assertions>>

vars == <<transition, tracers, trace, threads, sync>>

----------------------------------------------------------------------------
(* Bounds of the model *)

\* largest gas a transaction supplies
MaxGas == 3

\* the largest transaction gas of the states finalize is applied to on its own
FinalGas == 7

\* the largest value of a 256-bit unsigned integer, scaled down
MaxU256 == 7

\* the block hashes of the headers the downloader is given
MaxHash == 2

\* the longest list of headers, bodies or hashes given in one call, and the
\* largest count asked for
MaxBatch == 2

----------------------------------------------------------------------------
(* Addresses, environment *)

\* the depth at which exec_vm starts a new thread, and every multiple of it
MAX_VM_DEPTH_FOR_THREAD == 64

Sender == 1
Author == 2
Contract == 3
Builtin == 4
Plain == 5

\* the sender's balance before the transaction
SenderBalance == MaxGas

\* the consensus schedule (scaled): intrinsic gas and the two refunds
schedule == [tx_gas |-> 1, sstore_refund_gas |-> 2, suicide_refund_gas |-> 3]

RevertErrors == {"OutOfGas", "BadJumpDestination", "BadInstruction", "StackUnderflow", "OutOfStack"}

\* evm::Error
VmErrors == RevertErrors \cup {"Internal"}

\* evm::Result
Ok(gas_left) == [ok |-> TRUE, gas_left |-> gas_left, err |-> "None"]

Err(e) == [ok |-> FALSE, gas_left |-> 0, err |-> e]

\* the largest U256 of the model, and the moduli of U256 and U512
U256Modulus == MaxU256 + 1

U512Modulus == U256Modulus * U256Modulus

\* U256 addition; on an overflow the uint library either wraps, as here, or panics
u256_add(a, b) == (a + b) % U256Modulus

u512_add(a, b) == (a + b) % U512Modulus

u512_mul(a, b) == (a * b) % U512Modulus

Min(a, b) == IF a <= b THEN a ELSE b

Last(s) == s[Len(s)]

Front(s) == SubSeq(s, 1, Len(s) - 1)

\* hash of (address, nonce), without collisions for the nonces of the model
contract_address(address, nonce) == 10 * address + nonce

----------------------------------------------------------------------------
(* World state *)

NoAccount == [balance |-> 0, nonce |-> 0, code |-> FALSE, storage |-> 0]

Account(st, a) == IF a \in DOMAIN st THEN st[a] ELSE NoAccount

Put(st, a, acc) == [x \in DOMAIN st \cup {a} |-> IF x = a THEN acc ELSE st[x]]

balance(st, a) == Account(st, a).balance

nonce(st, a) == Account(st, a).nonce

code(st, a) == Account(st, a).code

storage_at(st, a) == Account(st, a).storage

add_balance(st, a, v) == Put(st, a, [Account(st, a) EXCEPT !.balance = @ + v])

sub_balance(st, a, v) == Put(st, a, [Account(st, a) EXCEPT !.balance = @ - v])

transfer_balance(st, from, to, v) == add_balance(sub_balance(st, from, v), to, v)

inc_nonce(st, a) == Put(st, a, [Account(st, a) EXCEPT !.nonce = @ + 1])

new_contract(st, a, bal) == Put(st, a, [NoAccount EXCEPT !.balance = bal])

init_code(st, a) == Put(st, a, [Account(st, a) EXCEPT !.code = TRUE])

set_storage(st, a, v) == Put(st, a, [Account(st, a) EXCEPT !.storage = v])

\* a machine m is the world state with its snapshot stack
snapshot(m) == [m EXCEPT !.snapshots = Append(@, m.state)]

revert_snapshot(m) ==
    IF m.snapshots = <<>> THEN m
    ELSE [state |-> Last(m.snapshots), snapshots |-> Front(m.snapshots)]

clear_snapshot(m) ==
    IF m.snapshots = <<>> THEN m
    ELSE [m EXCEPT !.snapshots = Front(@)]

----------------------------------------------------------------------------
(* Substate *)

NewSubstate == [suicides |-> {}, logs |-> <<>>, sstore_clears_count |-> 0, contracts_created |-> <<>>]

accrue(s, u) ==
    [suicides |-> s.suicides \cup u.suicides,
     logs |-> s.logs \o u.logs,
     sstore_clears_count |-> s.sstore_clears_count + u.sstore_clears_count,
     contracts_created |-> s.contracts_created \o u.contracts_created]

----------------------------------------------------------------------------
(* Tracer: the recording ExecutiveTracer and the NoopTracer *)

NoopTracer == [recording |-> FALSE, traces |-> <<>>]

ExecutiveTracer == [recording |-> TRUE, traces |-> <<>>]

\* Tracer::subtracer: a tracer of the same variant with no traces
subtracer(tr) == [tr EXCEPT !.traces = <<>>]

\* a Trace: depth, action (Call or Create of p), result, subs
Trace(kind, p, depth, failed, gas_used, subs) ==
    [depth |-> depth, kind |-> kind, from |-> p.sender, to |-> p.address, value |-> p.value,
     gas |-> p.gas, failed |-> failed, gas_used |-> gas_used, subs |-> subs,
     delegate_call |-> p.code_address # p.address]

record(tr, t) == IF tr.recording THEN [tr EXCEPT !.traces = Append(@, t)] ELSE tr

trace_call(tr, p, gas_used, depth, subs) ==
    record(tr, Trace("call", p, depth, FALSE, gas_used, subs))

trace_failed_call(tr, p, depth, subs) ==
    record(tr, Trace("call", p, depth, TRUE, 0, subs))

trace_create(tr, p, gas_used, depth, subs) ==
    record(tr, Trace("create", p, depth, FALSE, gas_used, subs))

trace_failed_create(tr, p, depth, subs) ==
    record(tr, Trace("create", p, depth, TRUE, 0, subs))

----------------------------------------------------------------------------
(* Engine *)

is_builtin(a) == a = Builtin

\* gas a builtin charges for its input
cost_of_builtin(a) == 1

----------------------------------------------------------------------------
(* Executive: depth, exec_vm, call, create, enact_result, finalize *)

\* Executive::new
new_depth == 0

\* from_parent keeping the depth of the parent
from_parent_same_depth(parent_depth) == parent_depth

\* Executive::from_parent
from_parent(parent_depth) == parent_depth + 1

\* exec_vm runs the interpreter in a new thread
vm_in_thread(depth) == (depth + 1) % MAX_VM_DEPTH_FOR_THREAD = 0

\* exec_vm that leaves the spawning thread running beside its worker
exec_vm_detached(depth, ths) ==
    IF ~vm_in_thread(depth) THEN ths ELSE Append(ths, "running")

\* exec_vm, the threads while the interpreter runs: inline the same threads;
\* else the current thread waits in join for the worker it has spawned
exec_vm(depth, ths) ==
    IF ~vm_in_thread(depth) THEN ths
    ELSE Append([ths EXCEPT ![Len(ths)] = "joining"], "running")

\* ScopedJoinHandle::join: the value the worker's closure returned
join(r) == r

\* exec_vm whose join turns the worker's result into a failure
exec_vm_result_join_fails(depth, res) ==
    IF ~vm_in_thread(depth) THEN res ELSE Err("OutOfStack")

\* exec_vm, the value it returns when the interpreter returns res
exec_vm_result(depth, res) ==
    IF ~vm_in_thread(depth) THEN res ELSE join(res)

\* exec_vm, the threads after its return: the worker is gone, its spawner runs
exec_vm_joined(depth, ths) ==
    IF ~vm_in_thread(depth) THEN ths
    ELSE [Front(ths) EXCEPT ![Len(ths) - 1] = "running"]

\* call_begin without its snapshot
call_begin_no_snapshot(m, p) ==
    IF p.transfer
    THEN [m EXCEPT !.state = transfer_balance(@, p.sender, p.address, p.value)]
    ELSE m

\* call_begin taking its snapshot after the value transfer
call_begin_snapshot_after_transfer(m, p) ==
    IF p.transfer
    THEN snapshot([m EXCEPT !.state = transfer_balance(@, p.sender, p.address, p.value)])
    ELSE snapshot(m)

\* Executive::call, its first steps: the snapshot, then the value transfer
call_begin(m, p) ==
    LET m1 == snapshot(m)
    IN  IF p.transfer
        THEN [m1 EXCEPT !.state = transfer_balance(@, p.sender, p.address, p.value)]
        ELSE m1

\* call_builtin that keeps the state changes when the builtin is not affordable
call_builtin_out_of_gas_clears(m, p, depth, tr) ==
    IF cost_of_builtin(p.code_address) <= p.gas
    THEN [m |-> clear_snapshot(m), running |-> FALSE, path |-> "builtin", mid |-> m.state,
          res |-> Ok(p.gas - cost_of_builtin(p.code_address)), op |-> "clear",
          tracer |-> IF depth = 0
                     THEN trace_call(tr, p, cost_of_builtin(p.code_address), depth, <<>>)
                     ELSE tr]
    ELSE [m |-> clear_snapshot(m), running |-> FALSE, path |-> "builtin", mid |-> m.state,
          res |-> Err("OutOfGas"), op |-> "revert",
          tracer |-> trace_failed_call(tr, p, depth, <<>>)]

\* call_builtin for which a cost equal to the gas is not affordable
call_builtin_equal_cost_fails(m, p, depth, tr) ==
    IF cost_of_builtin(p.code_address) < p.gas
    THEN [m |-> clear_snapshot(m), running |-> FALSE, path |-> "builtin", mid |-> m.state,
          res |-> Ok(p.gas - cost_of_builtin(p.code_address)), op |-> "clear",
          tracer |-> IF depth = 0
                     THEN trace_call(tr, p, cost_of_builtin(p.code_address), depth, <<>>)
                     ELSE tr]
    ELSE [m |-> revert_snapshot(m), running |-> FALSE, path |-> "builtin", mid |-> m.state,
          res |-> Err("OutOfGas"), op |-> "revert",
          tracer |-> trace_failed_call(tr, p, depth, <<>>)]

\* call_builtin that traces the builtin it could pay for and no other
call_builtin_traces_success_only(m, p, depth, tr) ==
    IF cost_of_builtin(p.code_address) <= p.gas
    THEN [m |-> clear_snapshot(m), running |-> FALSE, path |-> "builtin", mid |-> m.state,
          res |-> Ok(p.gas - cost_of_builtin(p.code_address)), op |-> "clear",
          tracer |-> IF depth = 0
                     THEN trace_call(tr, p, cost_of_builtin(p.code_address), depth, <<>>)
                     ELSE tr]
    ELSE [m |-> revert_snapshot(m), running |-> FALSE, path |-> "builtin", mid |-> m.state,
          res |-> Err("OutOfGas"), op |-> "revert", tracer |-> tr]

\* Executive::call, the destination is a builtin: m is the machine after
\* call_begin, mid the world state when the snapshot is resolved, op the
\* primitive that resolves it, tracer the tracer tr after the call
call_builtin(m, p, depth, tr) ==
    IF cost_of_builtin(p.code_address) <= p.gas
    THEN [m |-> clear_snapshot(m), running |-> FALSE, path |-> "builtin", mid |-> m.state,
          res |-> Ok(p.gas - cost_of_builtin(p.code_address)), op |-> "clear",
          tracer |-> IF depth = 0
                     THEN trace_call(tr, p, cost_of_builtin(p.code_address), depth, <<>>)
                     ELSE tr]
    ELSE [m |-> revert_snapshot(m), running |-> FALSE, path |-> "builtin", mid |-> m.state,
          res |-> Err("OutOfGas"), op |-> "revert",
          tracer |-> trace_failed_call(tr, p, depth, <<>>)]

\* call_plain that leaves its snapshot open
call_plain_leaves_snapshot(m, p, depth, tr) ==
    [m |-> m, running |-> FALSE, path |-> "plain", mid |-> m.state,
     res |-> Ok(p.gas), op |-> "clear", tracer |-> trace_call(tr, p, 0, depth, <<>>)]

\* call_plain that returns no gas when the tracer records
call_plain_recording_takes_gas(m, p, depth, tr) ==
    [m |-> clear_snapshot(m), running |-> FALSE, path |-> "plain", mid |-> m.state,
     res |-> IF tr.recording THEN Ok(0) ELSE Ok(p.gas), op |-> "clear",
     tracer |-> trace_call(tr, p, 0, depth, <<>>)]

\* call_plain tracing the whole gas as used
call_plain_traces_gas_used(m, p, depth, tr) ==
    [m |-> clear_snapshot(m), running |-> FALSE, path |-> "plain", mid |-> m.state,
     res |-> Ok(p.gas), op |-> "clear", tracer |-> trace_call(tr, p, p.gas, depth, <<>>)]

\* Executive::call, the destination has no code: a plain transfer
call_plain(m, p, depth, tr) ==
    [m |-> clear_snapshot(m), running |-> FALSE, path |-> "plain", mid |-> m.state,
     res |-> Ok(p.gas), op |-> "clear", tracer |-> trace_call(tr, p, 0, depth, <<>>)]

\* Executive::call, of the Executive of the given depth, up to its return or
\* up to exec_vm: running says that the interpreter was started; otherwise res
\* is what call returned
call(m, p, depth, tr) ==
    LET m2 == call_begin(m, p)
    IN  IF is_builtin(p.code_address) THEN call_builtin(m2, p, depth, tr)
        ELSE IF p.has_code
             THEN [m |-> m2, running |-> TRUE, path |-> "code", mid |-> m2.state,
                   res |-> Ok(0), op |-> "none", tracer |-> tr]
             ELSE call_plain(m2, p, depth, tr)

\* create giving the new contract the value alone
create_drops_prev_bal(m, p, depth, tr) ==
    LET m1 == snapshot(m)
        st == IF p.transfer
              THEN new_contract(sub_balance(m1.state, p.sender, p.value), p.address, p.value)
              ELSE new_contract(m1.state, p.address, 0)
    IN  [m |-> [m1 EXCEPT !.state = st], running |-> TRUE, path |-> "code", mid |-> st,
         res |-> Ok(0), op |-> "none", tracer |-> tr]

\* Executive::create up to exec_vm
create(m, p, depth, tr) ==
    LET m1 == snapshot(m)
        prev_bal == balance(m1.state, p.address)
        st == IF p.transfer
              THEN new_contract(sub_balance(m1.state, p.sender, p.value), p.address, p.value + prev_bal)
              ELSE new_contract(m1.state, p.address, prev_bal)
    IN  [m |-> [m1 EXCEPT !.state = st], running |-> TRUE, path |-> "code", mid |-> st,
         res |-> Ok(0), op |-> "none", tracer |-> tr]

\* trace_result recording the gas left as the gas used
trace_result_records_gas_left(tr, kind, p, depth, res, subs) ==
    IF kind = "create"
    THEN IF res.ok THEN trace_create(tr, p, res.gas_left, depth, subs)
         ELSE trace_failed_create(tr, p, depth, subs)
    ELSE IF res.ok THEN trace_call(tr, p, res.gas_left, depth, subs)
         ELSE trace_failed_call(tr, p, depth, subs)

\* trace_result leaving the sub-traces out of the trace of a failed invocation
trace_result_failed_drops_subs(tr, kind, p, depth, res, subs) ==
    IF kind = "create"
    THEN IF res.ok THEN trace_create(tr, p, p.gas - res.gas_left, depth, subs)
         ELSE trace_failed_create(tr, p, depth, <<>>)
    ELSE IF res.ok THEN trace_call(tr, p, p.gas - res.gas_left, depth, subs)
         ELSE trace_failed_call(tr, p, depth, <<>>)

\* call and create after exec_vm has returned res to the invocation of params
\* p: the trace recorded in the invocation's tracer tr, subs being the traces
\* of its subtracer
trace_result(tr, kind, p, depth, res, subs) ==
    IF kind = "create"
    THEN IF res.ok THEN trace_create(tr, p, p.gas - res.gas_left, depth, subs)
         ELSE trace_failed_create(tr, p, depth, subs)
    ELSE IF res.ok THEN trace_call(tr, p, p.gas - res.gas_left, depth, subs)
         ELSE trace_failed_call(tr, p, depth, subs)

\* enact_result that confirms the state and drops the unconfirmed Substate
enact_result_never_accrues(res, m, sub, un_substate) ==
    IF ~res.ok /\ res.err \in RevertErrors
    THEN [m |-> revert_snapshot(m), substate |-> sub, op |-> "revert"]
    ELSE [m |-> clear_snapshot(m), substate |-> sub, op |-> "clear"]

\* enact_result with OutOfStack left out of the revert class
enact_result_out_of_stack_confirms(res, m, sub, un_substate) ==
    IF ~res.ok /\ res.err \in RevertErrors \ {"OutOfStack"}
    THEN [m |-> revert_snapshot(m), substate |-> sub, op |-> "revert"]
    ELSE [m |-> clear_snapshot(m), substate |-> accrue(sub, un_substate), op |-> "clear"]

\* enact_result with Internal in the revert class
enact_result_internal_reverts(res, m, sub, un_substate) ==
    IF ~res.ok
    THEN [m |-> revert_snapshot(m), substate |-> sub, op |-> "revert"]
    ELSE [m |-> clear_snapshot(m), substate |-> accrue(sub, un_substate), op |-> "clear"]

\* enact_result that accrues the unconfirmed Substate whatever the result
enact_result_always_accrues(res, m, sub, un_substate) ==
    IF ~res.ok /\ res.err \in RevertErrors
    THEN [m |-> revert_snapshot(m), substate |-> accrue(sub, un_substate), op |-> "revert"]
    ELSE [m |-> clear_snapshot(m), substate |-> accrue(sub, un_substate), op |-> "clear"]

\* enact_result whose revert leaves the world state alone when an invocation
\* made below had been confirmed with a created contract
enact_result_keeps_confirmed_inner(res, m, sub, un_substate) ==
    IF ~res.ok /\ res.err \in RevertErrors
    THEN [m |-> IF un_substate.contracts_created # <<>>
                THEN clear_snapshot(m) ELSE revert_snapshot(m),
          substate |-> sub, op |-> "revert"]
    ELSE [m |-> clear_snapshot(m), substate |-> accrue(sub, un_substate), op |-> "clear"]

enact_result(res, m, sub, un_substate) ==
    IF ~res.ok /\ res.err \in RevertErrors
    THEN [m |-> revert_snapshot(m), substate |-> sub, op |-> "revert"]
    ELSE [m |-> clear_snapshot(m), substate |-> accrue(sub, un_substate), op |-> "clear"]

NoExecuted ==
    [gas |-> 0, gas_used |-> 0, refunded |-> 0, cumulative_gas_used |-> 0,
     logs |-> <<>>, contracts_created |-> <<>>]

\* the fields of the ExecutionError variants: required and got of
\* NotEnoughBaseGas and NotEnoughCash, expected and got of InvalidNonce,
\* gas_limit, gas_used and gas of BlockGasLimitReached
NoDetail ==
    [required |-> 0, got |-> 0, expected |-> 0, gas_limit |-> 0, gas_used |-> 0, gas |-> 0]

NoResult == [kind |-> "none", err |-> "None", executed |-> NoExecuted, detail |-> NoDetail]

kill_accounts(st, suicides) == [x \in DOMAIN st \ suicides |-> st[x]]

\* gas_accounting whose gas_used leaves the refund out
gas_accounting_refund_not_deducted(t, sub, res) ==
    LET refunds_bound == schedule.sstore_refund_gas * sub.sstore_clears_count
                         + schedule.suicide_refund_gas * Cardinality(sub.suicides)
        gas_left_prerefund == IF res.ok THEN res.gas_left ELSE 0
        refunded == Min(refunds_bound, (t.gas - gas_left_prerefund) \div 2)
        gas_left == gas_left_prerefund + refunded
        gas_used == t.gas - gas_left_prerefund
    IN  [refunded |-> refunded, gas_left |-> gas_left, gas_used |-> gas_used,
         refund_value |-> gas_left * t.gas_price, fees_value |-> gas_used * t.gas_price]

\* gas_accounting with the refund not capped at half of the gas consumed
gas_accounting_refund_uncapped(t, sub, res) ==
    LET refunds_bound == schedule.sstore_refund_gas * sub.sstore_clears_count
                         + schedule.suicide_refund_gas * Cardinality(sub.suicides)
        gas_left_prerefund == IF res.ok THEN res.gas_left ELSE 0
        refunded == Min(refunds_bound, t.gas - gas_left_prerefund)
        gas_left == gas_left_prerefund + refunded
        gas_used == t.gas - gas_left
    IN  [refunded |-> refunded, gas_left |-> gas_left, gas_used |-> gas_used,
         refund_value |-> gas_left * t.gas_price, fees_value |-> gas_used * t.gas_price]

\* gas_accounting that pays the author for the gas consumed before the refund
gas_accounting_fees_before_refund(t, sub, res) ==
    LET refunds_bound == schedule.sstore_refund_gas * sub.sstore_clears_count
                         + schedule.suicide_refund_gas * Cardinality(sub.suicides)
        gas_left_prerefund == IF res.ok THEN res.gas_left ELSE 0
        refunded == Min(refunds_bound, (t.gas - gas_left_prerefund) \div 2)
        gas_left == gas_left_prerefund + refunded
        gas_used == t.gas - gas_left
    IN  [refunded |-> refunded, gas_left |-> gas_left, gas_used |-> gas_used,
         refund_value |-> gas_left * t.gas_price,
         fees_value |-> (t.gas - gas_left_prerefund) * t.gas_price]

\* finalize, the gas accounting
gas_accounting(t, sub, res) ==
    LET sstore_refunds == schedule.sstore_refund_gas * sub.sstore_clears_count
        suicide_refunds == schedule.suicide_refund_gas * Cardinality(sub.suicides)
        refunds_bound == sstore_refunds + suicide_refunds
        gas_left_prerefund == IF res.ok THEN res.gas_left ELSE 0
        refunded == Min(refunds_bound, (t.gas - gas_left_prerefund) \div 2)
        gas_left == gas_left_prerefund + refunded
        gas_used == t.gas - gas_left
    IN  [refunded |-> refunded, gas_left |-> gas_left, gas_used |-> gas_used,
         refund_value |-> gas_left * t.gas_price, fees_value |-> gas_used * t.gas_price]

\* finalize_result that fails on every VM error
finalize_result_error_fails(t, sub, res, inf) ==
    IF ~res.ok
    THEN [kind |-> "err", err |-> "Internal", executed |-> NoExecuted, detail |-> NoDetail]
    ELSE [kind |-> "ok", err |-> "None", executed |->
            [gas |-> t.gas, gas_used |-> gas_accounting(t, sub, res).gas_used,
             refunded |-> gas_accounting(t, sub, res).refunded,
             cumulative_gas_used |-> inf.gas_used + gas_accounting(t, sub, res).gas_used,
             logs |-> sub.logs, contracts_created |-> sub.contracts_created],
             detail |-> NoDetail]

\* finalize_result that reports a failed execution as using only the intrinsic gas
finalize_result_failed_uses_base_gas(t, sub, res, inf) ==
    IF ~res.ok /\ res.err = "Internal"
    THEN [kind |-> "err", err |-> "Internal", executed |-> NoExecuted, detail |-> NoDetail]
    ELSE IF ~res.ok
    THEN [kind |-> "ok", err |-> "None", executed |->
            [gas |-> t.gas, gas_used |-> schedule.tx_gas, refunded |-> 0,
             cumulative_gas_used |-> inf.gas_used + schedule.tx_gas,
             logs |-> <<>>, contracts_created |-> <<>>],
             detail |-> NoDetail]
    ELSE [kind |-> "ok", err |-> "None", executed |->
            [gas |-> t.gas, gas_used |-> gas_accounting(t, sub, res).gas_used,
             refunded |-> gas_accounting(t, sub, res).refunded,
             cumulative_gas_used |-> inf.gas_used + gas_accounting(t, sub, res).gas_used,
             logs |-> sub.logs, contracts_created |-> sub.contracts_created],
             detail |-> NoDetail]

\* finalize, the value it returns
finalize_result(t, sub, res, inf) ==
    LET g == gas_accounting(t, sub, res)
    IN  IF ~res.ok /\ res.err = "Internal"
        THEN [kind |-> "err", err |-> "Internal", executed |-> NoExecuted, detail |-> NoDetail]
        ELSE IF ~res.ok
        THEN [kind |-> "ok", err |-> "None", executed |->
                [gas |-> t.gas, gas_used |-> t.gas, refunded |-> 0,
                 cumulative_gas_used |-> u256_add(inf.gas_used, t.gas),
                 logs |-> <<>>, contracts_created |-> <<>>],
             detail |-> NoDetail]
        ELSE [kind |-> "ok", err |-> "None", executed |->
                [gas |-> t.gas, gas_used |-> g.gas_used, refunded |-> g.refunded,
                 cumulative_gas_used |-> u256_add(inf.gas_used, g.gas_used),
                 logs |-> sub.logs, contracts_created |-> sub.contracts_created],
             detail |-> NoDetail]

\* finalize that removes the suicided accounts before it credits the balances
finalize_kills_before_credits(st, t, sub, res, inf) ==
    LET g == gas_accounting(t, sub, res)
        st1 == kill_accounts(st, sub.suicides)
        st2 == add_balance(st1, Sender, g.refund_value)
        st3 == add_balance(st2, inf.author, g.fees_value)
    IN  [state |-> st3, result |-> finalize_result(t, sub, res, inf)]

\* finalize that pays the author for the whole gas of the transaction
finalize_author_gets_all_gas(st, t, sub, res, inf) ==
    LET g == gas_accounting(t, sub, res)
        st1 == add_balance(st, Sender, g.refund_value)
        st2 == add_balance(st1, inf.author, t.gas * t.gas_price)
        st3 == kill_accounts(st2, sub.suicides)
    IN  [state |-> st3, result |-> finalize_result(t, sub, res, inf)]

\* finalize: the credits, the suicides, the value returned
finalize(st, t, sub, res, inf) ==
    LET g == gas_accounting(t, sub, res)
        st1 == add_balance(st, Sender, g.refund_value)
        st2 == add_balance(st1, inf.author, g.fees_value)
        st3 == kill_accounts(st2, sub.suicides)
    IN  [state |-> st3, result |-> finalize_result(t, sub, res, inf)]

----------------------------------------------------------------------------
(* transact *)

Transactions ==
    [sig_valid : BOOLEAN, nonce : 0..1, gas : 0..MaxGas, gas_price : 0..1, value : 0..1,
     create : {FALSE}, to : {Contract, Builtin, Plain}]
    \cup
    [sig_valid : BOOLEAN, nonce : 0..1, gas : 0..MaxGas, gas_price : 0..1, value : 0..1,
     create : {TRUE}, to : {0}]

\* the calls of transact: a transaction with the check_nonce option
Inputs ==
    {in \in [t : Transactions, check_nonce : BOOLEAN] : in.check_nonce \/ in.t.nonce = 1}

NoTx == [t |-> [sig_valid |-> FALSE, nonce |-> 0, gas |-> 0, gas_price |-> 0, value |-> 0,
                create |-> FALSE, to |-> 0],
         check_nonce |-> FALSE]

\* validate with the total cost computed in 256 bits
validate_cost_in_u256(st, inf, t, check_nonce) ==
    LET base_gas_required == schedule.tx_gas
        gas_cost == (t.gas * t.gas_price) % U256Modulus
        total_cost == u256_add(t.value, gas_cost)
    IN  IF ~t.sig_valid THEN "TransactionMalformed"
        ELSE IF t.gas < base_gas_required THEN "NotEnoughBaseGas"
        ELSE IF check_nonce /\ t.nonce # nonce(st, Sender) THEN "InvalidNonce"
        ELSE IF u256_add(inf.gas_used, t.gas) > inf.gas_limit THEN "BlockGasLimitReached"
        ELSE IF balance(st, Sender) < total_cost THEN "NotEnoughCash"
        ELSE "None"

\* validate that checks the nonce whatever check_nonce is
validate_always_checks_nonce(st, inf, t, check_nonce) ==
    LET base_gas_required == schedule.tx_gas
        gas_cost == u512_mul(t.gas, t.gas_price)
        total_cost == u512_add(t.value, gas_cost)
    IN  IF ~t.sig_valid THEN "TransactionMalformed"
        ELSE IF t.gas < base_gas_required THEN "NotEnoughBaseGas"
        ELSE IF t.nonce # nonce(st, Sender) THEN "InvalidNonce"
        ELSE IF u256_add(inf.gas_used, t.gas) > inf.gas_limit THEN "BlockGasLimitReached"
        ELSE IF balance(st, Sender) < total_cost THEN "NotEnoughCash"
        ELSE "None"

\* the validation gates of transact_with_tracer: the error returned, or "None".
\* gas_used + t.gas is a U256 sum, the total cost a U512 product and sum
validate(st, inf, t, check_nonce) ==
    LET base_gas_required == schedule.tx_gas
        gas_cost == u512_mul(t.gas, t.gas_price)
        total_cost == u512_add(t.value, gas_cost)
    IN  IF ~t.sig_valid THEN "TransactionMalformed"
        ELSE IF t.gas < base_gas_required THEN "NotEnoughBaseGas"
        ELSE IF check_nonce /\ t.nonce # nonce(st, Sender) THEN "InvalidNonce"
        ELSE IF u256_add(inf.gas_used, t.gas) > inf.gas_limit THEN "BlockGasLimitReached"
        ELSE IF balance(st, Sender) < total_cost THEN "NotEnoughCash"
        ELSE "None"

\* transact_with_tracer reaches the U256 sum gas_used + t.gas and the sum
\* does not fit in 256 bits
validate_overflows(st, inf, t, check_nonce) ==
    /\ t.sig_valid
    /\ t.gas >= schedule.tx_gas
    /\ ~(check_nonce /\ t.nonce # nonce(st, Sender))
    /\ inf.gas_used + t.gas > MaxU256

\* the fields of the error that ends validation
error_detail(st, inf, t, err) ==
    IF err = "NotEnoughBaseGas"
    THEN [NoDetail EXCEPT !.required = schedule.tx_gas, !.got = t.gas]
    ELSE IF err = "InvalidNonce"
    THEN [NoDetail EXCEPT !.expected = nonce(st, Sender), !.got = t.nonce]
    ELSE IF err = "BlockGasLimitReached"
    THEN [NoDetail EXCEPT !.gas_limit = inf.gas_limit, !.gas_used = inf.gas_used, !.gas = t.gas]
    ELSE IF err = "NotEnoughCash"
    THEN [NoDetail EXCEPT !.required = u512_add(t.value, u512_mul(t.gas, t.gas_price)),
                          !.got = balance(st, Sender)]
    ELSE NoDetail

\* prepay that debits the value together with the gas
prepay_debits_value(st, t, err) ==
    IF err # "None" THEN st
    ELSE sub_balance(inc_nonce(st, Sender), Sender, t.gas * t.gas_price + t.value)

\* prepay with the nonce incremented before the balance is checked
prepay_before_cash_check(st, t, err) ==
    IF err = "NotEnoughCash" THEN inc_nonce(st, Sender)
    ELSE IF err # "None" THEN st
    ELSE sub_balance(inc_nonce(st, Sender), Sender, t.gas * t.gas_price)

\* the world state transact_with_tracer leaves when validation ends with err
prepay(st, t, err) ==
    IF err # "None" THEN st
    ELSE sub_balance(inc_nonce(st, Sender), Sender, t.gas * t.gas_price)

\* transact_params that offers the whole gas of the transaction
transact_params_whole_gas(st, t) ==
    LET new_address == contract_address(Sender, nonce(st, Sender))
    IN  IF t.create
        THEN [code_address |-> new_address, address |-> new_address, sender |-> Sender,
              gas |-> t.gas, value |-> t.value, transfer |-> TRUE, has_code |-> TRUE]
        ELSE [code_address |-> t.to, address |-> t.to, sender |-> Sender,
              gas |-> t.gas, value |-> t.value, transfer |-> TRUE,
              has_code |-> code(st, t.to)]

\* transact_params deriving the address from the nonce after its increment
transact_params_nonce_after_increment(st, t) ==
    LET init_gas == t.gas - schedule.tx_gas
        new_address == contract_address(Sender, nonce(st, Sender) + 1)
    IN  IF t.create
        THEN [code_address |-> new_address, address |-> new_address, sender |-> Sender,
              gas |-> init_gas, value |-> t.value, transfer |-> TRUE, has_code |-> TRUE]
        ELSE [code_address |-> t.to, address |-> t.to, sender |-> Sender,
              gas |-> init_gas, value |-> t.value, transfer |-> TRUE,
              has_code |-> code(st, t.to)]

\* the ActionParams transact_with_tracer builds
transact_params(st, t) ==
    LET init_gas == t.gas - schedule.tx_gas
        new_address == contract_address(Sender, nonce(st, Sender))
    IN  IF t.create
        THEN [code_address |-> new_address, address |-> new_address, sender |-> Sender,
              gas |-> init_gas, value |-> t.value, transfer |-> TRUE, has_code |-> TRUE]
        ELSE [code_address |-> t.to, address |-> t.to, sender |-> Sender,
              gas |-> init_gas, value |-> t.value, transfer |-> TRUE,
              has_code |-> code(st, t.to)]

----------------------------------------------------------------------------
(* Invocations in progress and observed returns *)

Frame(id, kind, depth, p, pre) ==
    [id |-> id, kind |-> kind, depth |-> depth, params |-> p, gas |-> p.gas,
     un |-> NewSubstate, halted |-> FALSE, pre |-> pre]

Pre(st, sn, sub) == [state |-> st, snapshots |-> sn, substate |-> sub]

NoParams ==
    [code_address |-> 0, address |-> 0, sender |-> 0, gas |-> 0, value |-> 0,
     transfer |-> FALSE, has_code |-> FALSE]

\* an invocation observed at its return: its params, path, result and the
\* primitive op that resolved its snapshot; pre, the world state, snapshot
\* stack and caller's Substate at its entry; mid, the world state when the
\* snapshot was resolved; un, its unconfirmed Substate; post, as pre, at its
\* return; vm, what its interpreter returned to exec_vm, if one ran
Returned(f, path, res, op, mid, post) ==
    [id |-> f.id, kind |-> f.kind, depth |-> f.depth, params |-> f.params, path |-> path,
     res |-> res, op |-> op, pre |-> f.pre, mid |-> mid, un |-> f.un, post |-> post,
     vm |-> res]

NoRet ==
    [id |-> 0, kind |-> "none", depth |-> 0, params |-> NoParams, path |-> "none",
     res |-> Ok(0), op |-> "none", pre |-> Pre(<<>>, <<>>, NewSubstate), mid |-> <<>>,
     un |-> NewSubstate, post |-> Pre(<<>>, <<>>, NewSubstate), vm |-> Ok(0)]

Top == frames[Len(frames)]

\* the Substate the invocation frames[i] was given by its caller
CallerSubstate(i) == IF i = 1 THEN substate ELSE frames[i - 1].un

\* Vec::pop of the tracer's traces: the last trace, if any
pop(traces) == IF traces = <<>> THEN <<>> ELSE <<Last(traces)>>

----------------------------------------------------------------------------
(* BlockCollection (sync/src/blocks.rs). A header is given as bytes: 0 does  *)
(* not decode, h > 0 decodes to the header of hash h, parent hash h - 1 and  *)
(* HeaderId h \div 2, the HeaderId 0 being that of the empty body. A body is *)
(* given as bytes: 0 does not decode, b > 0 decodes to the HeaderId b - 1.   *)

\* Option
None == <<>>

Some(x) == <<x>>

\* HashMap::insert and HashMap::remove
insert(map, k, v) == [x \in DOMAIN map \cup {k} |-> IF x = k THEN v ELSE map[x]]

remove(map, k) == [x \in DOMAIN map \ {k} |-> map[x]]

\* the decoded BlockHeader
header_info(header) ==
    [hash |-> header, parent_hash |-> header - 1, header_id |-> header \div 2]

\* the HeaderId of a decoded body
body_id(b) == b - 1

\* the HeaderId of the transactions root SHA3_NULL_RLP with the uncles hash
\* SHA3_EMPTY_LIST_RLP, and the bytes of the body insert_header builds for it
is_empty_body(header_id) == header_id = 0

empty_body == 1

\* BlockCollection::new
new ==
    [heads |-> <<>>, blocks |-> <<>>, parents |-> <<>>, header_ids |-> <<>>, head |-> None,
     downloading_headers |-> {}, downloading_bodies |-> {}]

\* clear that leaves the sets of downloads as they are
clear_keeps_downloads(c) ==
    [c EXCEPT !.blocks = <<>>, !.parents = <<>>, !.header_ids = <<>>, !.heads = <<>>,
              !.head = None]

\* BlockCollection::clear
clear(c) ==
    [c EXCEPT !.blocks = <<>>, !.parents = <<>>, !.header_ids = <<>>, !.heads = <<>>,
              !.head = None, !.downloading_headers = {}, !.downloading_bodies = {}]

\* BlockCollection::insert_header: "err" for bytes that do not decode, "panic"
\* where debug_assert! is checked and the block is there already
insert_header(c, header, debug) ==
    LET decoded == header_info(header)
        hash == decoded.hash
        block == [header |-> header,
                  body |-> IF is_empty_body(decoded.header_id) THEN Some(empty_body) ELSE None,
                  next |-> IF hash \in DOMAIN c.parents THEN Some(c.parents[hash]) ELSE None]
        blocks1 == IF decoded.parent_hash \in DOMAIN c.blocks
                   THEN [c.blocks EXCEPT ![decoded.parent_hash].next = Some(hash)]
                   ELSE c.blocks
    IN  IF header = 0 THEN [c |-> c, outcome |-> "err"]
        ELSE IF debug /\ hash \in DOMAIN c.blocks THEN [c |-> c, outcome |-> "panic"]
        ELSE [c |-> [c EXCEPT
                       !.header_ids = IF is_empty_body(decoded.header_id) THEN @
                                      ELSE insert(@, decoded.header_id, hash),
                       !.parents = insert(@, decoded.parent_hash, hash),
                       !.blocks = insert(blocks1, hash, block)],
              outcome |-> "ok"]

\* reset_to that takes the first of the hashes for the first block
reset_to_sets_head(c, hashes) ==
    [clear(c) EXCEPT !.heads = hashes,
                     !.head = IF hashes = <<>> THEN None ELSE Some(hashes[1])]

\* BlockCollection::reset_to
reset_to(c, hashes) == [clear(c) EXCEPT !.heads = hashes]

\* the loop of update_heads for the subchain head h: the hash to push, if any
RECURSIVE subchain_head(_, _, _)
subchain_head(blocks, old_subchains, h) ==
    IF h \in DOMAIN blocks /\ blocks[h].next # None
    THEN IF blocks[h].next[1] \in old_subchains THEN None
         ELSE subchain_head(blocks, old_subchains, blocks[h].next[1])
    ELSE Some(h)

RECURSIVE new_heads(_, _, _)
new_heads(blocks, old_subchains, heads) ==
    IF heads = <<>> THEN <<>>
    ELSE subchain_head(blocks, old_subchains, Head(heads))
         \o new_heads(blocks, old_subchains, Tail(heads))

\* BlockCollection::update_heads
update_heads(c) ==
    [c EXCEPT !.heads = new_heads(c.blocks, {c.heads[i] : i \in 1..Len(c.heads)}, c.heads)]

\* the loop of insert_headers: a header that does not decode is ignored, a
\* panic ends the call
RECURSIVE insert_each_header(_, _, _)
insert_each_header(c, headers, debug) ==
    IF headers = <<>> THEN [c |-> c, panicked |-> FALSE]
    ELSE LET r == insert_header(c, Head(headers), debug)
         IN  IF r.outcome = "panic" THEN [c |-> r.c, panicked |-> TRUE]
             ELSE insert_each_header(r.c, Tail(headers), debug)

\* BlockCollection::insert_headers
insert_headers(c, headers, debug) ==
    LET r == insert_each_header(c, headers, debug)
    IN  IF r.panicked THEN r ELSE [c |-> update_heads(r.c), panicked |-> FALSE]

\* BlockCollection::insert_body
insert_body(c, b) ==
    IF b = 0 \/ body_id(b) \notin DOMAIN c.header_ids THEN c
    ELSE LET h == c.header_ids[body_id(b)]
         IN  [c EXCEPT !.header_ids = remove(@, body_id(b)),
                       !.blocks = IF h \in DOMAIN @ THEN [@ EXCEPT ![h].body = Some(b)] ELSE @]

\* BlockCollection::insert_bodies
RECURSIVE insert_bodies(_, _)
insert_bodies(c, bodies) ==
    IF bodies = <<>> THEN c ELSE insert_bodies(insert_body(c, Head(bodies)), Tail(bodies))

\* the loop of needed_bodies from the block head on: the hashes of the blocks
\* that have a successor and no body, count at most
RECURSIVE bodies_from(_, _, _, _)
bodies_from(blocks, head, count, needed) ==
    IF head = None \/ Len(needed) >= count \/ head[1] \notin DOMAIN blocks THEN needed
    ELSE LET block == blocks[head[1]]
         IN  bodies_from(blocks, block.next, count,
                         IF block.body = None /\ block.next # None
                         THEN Append(needed, head[1]) ELSE needed)

\* BlockCollection::needed_bodies
needed_bodies(c, count, ignore_downloading) ==
    IF c.head = None THEN [c |-> c, value |-> <<>>]
    ELSE LET needed == bodies_from(c.blocks, c.head, count, <<>>)
         IN  [c |-> [c EXCEPT !.downloading_bodies =
                                @ \cup {needed[i] : i \in 1..Len(needed)}],
              value |-> needed]

\* the first head of needed_headers that is to be downloaded, if any
RECURSIVE first_to_download(_, _, _)
first_to_download(heads, downloading, ignore_downloading) ==
    IF heads = <<>> THEN None
    ELSE IF ignore_downloading \/ Head(heads) \notin downloading THEN Some(Head(heads))
    ELSE first_to_download(Tail(heads), downloading, ignore_downloading)

\* BlockCollection::needed_headers
needed_headers(c, count, ignore_downloading) ==
    LET download == first_to_download(c.heads, c.downloading_headers, ignore_downloading)
    IN  IF download = None THEN [c |-> c, value |-> None]
        ELSE [c |-> [c EXCEPT !.downloading_headers = @ \cup {download[1]}],
              value |-> Some(<<download[1], count>>)]

\* BlockCollection::clear_download
clear_download(c, hash) ==
    [c EXCEPT !.downloading_headers = @ \ {hash}, !.downloading_bodies = @ \ {hash}]

\* the loop of drain from the block head on: the hashes of the blocks with a
\* body and a successor, and the block the loop stops at
RECURSIVE drain_from(_, _, _)
drain_from(blocks, head, hashes) ==
    IF head \in DOMAIN blocks /\ blocks[head].body # None /\ blocks[head].next # None
    THEN drain_from(blocks, blocks[head].next[1], Append(hashes, head))
    ELSE [hashes |-> hashes, head |-> head]

RECURSIVE remove_each(_, _)
remove_each(map, hashes) ==
    IF hashes = <<>> THEN map ELSE remove_each(remove(map, Head(hashes)), Tail(hashes))

\* BlockCollection::drain: a drained block is the header with the body
drain(c) ==
    IF DOMAIN c.blocks = {} \/ c.head = None THEN [c |-> c, value |-> <<>>]
    ELSE LET d == drain_from(c.blocks, c.head[1], <<>>)
         IN  [c |-> [c EXCEPT !.head = IF d.hashes = <<>> THEN @ ELSE Some(d.head),
                              !.blocks = remove_each(@, d.hashes)],
              value |-> [i \in 1..Len(d.hashes) |->
                           <<c.blocks[d.hashes[i]].header, c.blocks[d.hashes[i]].body[1]>>]]

\* no operation on the collection yet: the operation, the hashes given to
\* reset_to, the value returned, the blocks the operation removed and the
\* bodies it marked as downloading, whether it panicked
NoCall ==
    [op |-> "new", hashes |-> <<>>, value |-> <<>>, removed |-> {}, marked |-> {},
     panicked |-> FALSE]

\* what the operation that made c2 of c1 is seen to have done
Observe(r, c1, c2) ==
    [r EXCEPT !.removed = DOMAIN c1.blocks \ DOMAIN c2.blocks,
                 !.marked = c2.downloading_bodies \ c1.downloading_bodies]

NoHistory == [logged |-> <<>>, created |-> <<>>, reverted |-> {}]

Init ==
    /\ \E prefund \in 0..1 :
         state = [a \in {Sender, Contract} \cup
                            (IF prefund = 1 THEN {contract_address(Sender, 0)} ELSE {}) |->
                    IF a = Sender THEN [NoAccount EXCEPT !.balance = SenderBalance]
                    ELSE IF a = Contract THEN [NoAccount EXCEPT !.code = TRUE, !.storage = 1]
                    ELSE [NoAccount EXCEPT !.balance = prefund]]
    /\ snapshots = <<>>
    /\ \E used \in 0..1 : info = [author |-> Author, gas_limit |-> MaxGas, gas_used |-> used]
    /\ pc = "idle"
    /\ tx = NoTx
    /\ frames = <<>>
    /\ substate = NewSubstate
    /\ next_id = 0
    /\ ret = NoRet
    /\ result = NoResult
    /\ begin = Pre(<<>>, <<>>, NewSubstate)
    /\ history = NoHistory
    /\ tracers = <<>>
    /\ trace = <<>>
    /\ threads = <<"running">>
    /\ collection = new /\ returned = NoCall /\ debug_assertions = FALSE

\* transact_with_tracer from its entry to the return of call or create, or to
\* exec_vm: the error of the validation, the world state st0 after the
\* prepayment, the params p, and what call or create made of them with the
\* tracer tr
transact_dispatch(m, inf, t, check_nonce, tr) ==
    LET err == validate(m.state, inf, t, check_nonce)
        st0 == prepay(m.state, t, err)
        p == transact_params(m.state, t)
        m0 == [m EXCEPT !.state = st0]
    IN  [err |-> err, st0 |-> st0, p |-> p,
         kind |-> IF t.create THEN "create" ELSE "call",
         c |-> IF t.create THEN create(m0, p, new_depth, tr) ELSE call(m0, p, new_depth, tr)]

\* Executive::transact on an Executive made by new, with the tracer tr:
\* validation, then (validation passed) the prepayment and the top-level
\* create or call, up to the interpreter's start or, for a builtin or a plain
\* transfer, up to the end of finalize; the state transition
TransactStep(t, check_nonce, tr) ==
    /\ pc = "idle"
    /\ tx' = [t |-> t, check_nonce |-> check_nonce]
    /\ begin' = Pre(state, snapshots, NewSubstate)
    /\ UNCHANGED <<info, history>>
    /\ LET d == transact_dispatch([state |-> state, snapshots |-> snapshots], info, t,
                                 check_nonce, tr)
           pre == Pre(d.st0, snapshots, NewSubstate)
           fin == finalize(d.c.m.state, t, NewSubstate, d.c.res, info)
       IN  IF d.err # "None"
           THEN /\ result' = [kind |-> "err", err |-> d.err, executed |-> NoExecuted,
                               detail |-> error_detail(state, info, t, d.err)]
                /\ state' = d.st0
                /\ pc' = "done"
                /\ UNCHANGED <<snapshots, frames, substate, next_id, ret>>
           ELSE IF d.c.running
           THEN /\ state' = d.c.m.state
                /\ snapshots' = d.c.m.snapshots
                /\ frames' = <<Frame(1, d.kind, new_depth, d.p, pre)>>
                /\ substate' = NewSubstate
                /\ next_id' = 1
                /\ pc' = "vm"
                /\ UNCHANGED <<ret, result>>
           ELSE /\ state' = fin.state
                /\ snapshots' = d.c.m.snapshots
                /\ substate' = NewSubstate
                /\ next_id' = 1
                /\ ret' = Returned(Frame(1, d.kind, new_depth, d.p, pre), d.c.path, d.c.res,
                                   d.c.op, d.c.mid,
                                   Pre(d.c.m.state, d.c.m.snapshots, NewSubstate))
                /\ result' = fin.result
                /\ pc' = "done"
                /\ UNCHANGED frames

\* Executive::transact with the options check_nonce and tracing: the state
\* transition, the tracer (ExecutiveTracer or NoopTracer) with the subtracer
\* it hands to the interpreter, the trace finalize puts in Executed, and the
\* threads of exec_vm
Transact(t, check_nonce, tracing) ==
    LET tr == IF tracing THEN ExecutiveTracer ELSE NoopTracer
        d == transact_dispatch([state |-> state, snapshots |-> snapshots], info, t,
                                 check_nonce, tr)
    IN  /\ TransactStep(t, check_nonce, tr)
        /\ IF d.err # "None"
           THEN /\ tracers' = <<>>
                /\ UNCHANGED <<trace, threads>>
           ELSE IF d.c.running
           THEN /\ tracers' = <<d.c.tracer, subtracer(d.c.tracer)>>
                /\ threads' = exec_vm(new_depth, threads)
                /\ UNCHANGED trace
           ELSE /\ tracers' = <<>>
                /\ trace' = pop(d.c.tracer.traces)
                /\ UNCHANGED threads
        /\ UNCHANGED sync

----------------------------------------------------------------------------
(* The interpreter, acting through the externalities of the innermost      *)
(* invocation. Every operation but SUICIDE costs one unit of gas.          *)

Running == pc = "vm" /\ frames # <<>> /\ ~Top.halted

SetTop(f) == [frames EXCEPT ![Len(frames)] = f]

\* SSTORE: a write of zero over a non-zero value counts as a storage clear
ExtSstore(v) ==
    /\ Running
    /\ Top.gas >= 1
    /\ LET a == Top.params.address
           cleared == storage_at(state, a) # 0 /\ v = 0
       IN  /\ state' = set_storage(state, a, v)
           /\ frames' = SetTop([Top EXCEPT
                  !.gas = @ - 1,
                  !.un.sstore_clears_count = IF cleared THEN @ + 1 ELSE @])
    /\ ret' = NoRet
    /\ UNCHANGED <<snapshots, info, pc, tx, substate, next_id, result, begin, history>>
    /\ UNCHANGED <<tracers, trace, threads>>
    /\ UNCHANGED sync

\* LOG: the entry names the invocation that logged it
ExtLog ==
    /\ Running
    /\ Top.gas >= 1
    /\ frames' = SetTop([Top EXCEPT !.gas = @ - 1, !.un.logs = Append(@, Top.id)])
    /\ history' = [history EXCEPT !.logged = Append(@, Top.id)]
    /\ ret' = NoRet
    /\ UNCHANGED <<state, snapshots, info, pc, tx, substate, next_id, result, begin>>
    /\ UNCHANGED <<tracers, trace, threads>>
    /\ UNCHANGED sync

\* SUICIDE: the balance goes to the refund address and the interpreter stops
ExtSuicide ==
    /\ Running
    /\ LET a == Top.params.address
       IN  /\ state' = transfer_balance(state, a, Top.params.sender, balance(state, a))
           /\ frames' = SetTop([Top EXCEPT !.halted = TRUE, !.un.suicides = @ \cup {a}])
    /\ ret' = NoRet
    /\ UNCHANGED <<snapshots, info, pc, tx, substate, next_id, result, begin, history>>
    /\ UNCHANGED <<tracers, trace, threads>>
    /\ UNCHANGED sync

\* the params Externalities::call builds for a CALL of the innermost invocation
ext_call_params(to, gas, value) ==
    [code_address |-> to, address |-> to, sender |-> Top.params.address,
     gas |-> gas, value |-> value, transfer |-> TRUE, has_code |-> code(state, to)]

\* CALL: Externalities::call builds the params and runs Executive::call of a
\* child Executive (from_parent) on this invocation's Substate, with the
\* tracer tr; the state transition
ExtCallStep(to, gas, value, tr) ==
    /\ Running
    /\ Top.gas >= 1 + gas
    /\ value <= balance(state, Top.params.address)
    /\ LET p == ext_call_params(to, gas, value)
           depth == from_parent(Top.depth)
           c == call([state |-> state, snapshots |-> snapshots], p, depth, tr)
           pre == Pre(state, snapshots, Top.un)
           caller == [Top EXCEPT !.gas = @ - 1 - gas]
       IN  /\ state' = c.m.state
           /\ snapshots' = c.m.snapshots
           /\ next_id' = next_id + 1
           /\ IF c.running
              THEN /\ frames' = Append(SetTop(caller), Frame(next_id + 1, "call", depth, p, pre))
                   /\ ret' = NoRet
                   /\ UNCHANGED history
              ELSE /\ frames' = SetTop([caller EXCEPT !.gas = @ + c.res.gas_left])
                   /\ ret' = Returned(Frame(next_id + 1, "call", depth, p, pre), c.path,
                                      c.res, c.op, c.mid, Pre(c.m.state, c.m.snapshots, Top.un))
                   /\ history' = IF c.op = "revert"
                                 THEN [history EXCEPT !.reverted = @ \cup {next_id + 1}]
                                 ELSE history
    /\ UNCHANGED <<info, pc, tx, substate, result, begin>>

\* CALL, with the tracer of the innermost invocation's externalities and the
\* threads of exec_vm
ExtCall(to, gas, value) ==
    /\ ExtCallStep(to, gas, value, Last(tracers))
    /\ LET depth == from_parent(Top.depth)
           c == call([state |-> state, snapshots |-> snapshots],
                     ext_call_params(to, gas, value), depth, Last(tracers))
       IN  IF c.running
           THEN /\ tracers' = Append(tracers, subtracer(c.tracer))
                /\ threads' = exec_vm(depth, threads)
           ELSE /\ tracers' = [tracers EXCEPT ![Len(tracers)] = c.tracer]
                /\ UNCHANGED threads
    /\ UNCHANGED trace
    /\ UNCHANGED sync

\* the params Externalities::create builds for a CREATE of the innermost invocation
ext_create_params(gas, value) ==
    LET a == Top.params.address
        address == contract_address(a, nonce(state, a))
    IN  [code_address |-> address, address |-> address, sender |-> a,
         gas |-> gas, value |-> value, transfer |-> TRUE, has_code |-> TRUE]

\* CREATE: Externalities::create derives the address from this invocation's
\* address and nonce, increments the nonce and runs Executive::create of a
\* child Executive, with the tracer tr; the state transition
ExtCreateStep(gas, value, tr) ==
    /\ Running
    /\ Top.gas >= 1 + gas
    /\ value <= balance(state, Top.params.address)
    /\ LET p == ext_create_params(gas, value)
           depth == from_parent(Top.depth)
           st == inc_nonce(state, Top.params.address)
           c == create([state |-> st, snapshots |-> snapshots], p, depth, tr)
           pre == Pre(st, snapshots, Top.un)
       IN  /\ state' = c.m.state
           /\ snapshots' = c.m.snapshots
           /\ next_id' = next_id + 1
           /\ frames' = Append(SetTop([Top EXCEPT !.gas = @ - 1 - gas]),
                               Frame(next_id + 1, "create", depth, p, pre))
    /\ ret' = NoRet
    /\ UNCHANGED <<info, pc, tx, substate, result, begin, history>>

\* CREATE, with the tracer of the innermost invocation's externalities and
\* the threads of exec_vm
ExtCreate(gas, value) ==
    /\ ExtCreateStep(gas, value, Last(tracers))
    /\ tracers' = Append(tracers, subtracer(Last(tracers)))
    /\ threads' = exec_vm(from_parent(Top.depth), threads)
    /\ UNCHANGED trace
    /\ UNCHANGED sync

\* what the interpreter may return: any gas it still has, or, unless it has
\* stopped, any error
VmResults(f) ==
    {Ok(g) : g \in 0..f.gas} \cup (IF f.halted THEN {} ELSE {Err(e) : e \in VmErrors})

\* the interpreter of the innermost invocation returns vm_res and exec_vm, on
\* the path it takes at the given depth, returns to call or create, which
\* enacts the result and returns: to the interpreter of its caller, to
\* transact, which finalizes, or to the caller of call or create; the state
\* transition
VmReturnStep(vm_res, depth) ==
    /\ pc = "vm" /\ frames # <<>>
    /\ vm_res \in VmResults(Top)
    /\ LET f == Top
           n == Len(frames)
           res == exec_vm_result(depth, vm_res)
           st == IF f.kind = "create" /\ res.ok THEN init_code(state, f.params.address) ELSE state
           e == enact_result(res, [state |-> st, snapshots |-> snapshots], CallerSubstate(n), f.un)
           observed == [Returned(f, "code", res, e.op, st,
                                 Pre(e.m.state, e.m.snapshots, e.substate))
                           EXCEPT !.vm = vm_res]
           fin == finalize(e.m.state, tx.t, e.substate, res, info)
           reverted == IF e.op = "revert" THEN f.id..next_id ELSE {}
       IN  /\ ret' = observed
           /\ snapshots' = e.m.snapshots
           /\ IF n = 1 /\ tx # NoTx
              THEN /\ state' = fin.state
                   /\ substate' = e.substate
                   /\ result' = fin.result
                   /\ frames' = <<>>
                   /\ pc' = "done"
                   /\ history' = [history EXCEPT !.reverted = @ \cup reverted]
              ELSE IF n = 1
              THEN /\ state' = e.m.state
                   /\ substate' = e.substate
                   /\ frames' = <<>>
                   /\ pc' = "returned"
                   /\ history' = [history EXCEPT !.reverted = @ \cup reverted]
                   /\ UNCHANGED result
              ELSE /\ state' = e.m.state
                   /\ frames' = [Front(frames) EXCEPT ![n - 1] =
                          [@ EXCEPT
                             !.gas = @ + res.gas_left,
                             !.un = IF f.kind = "create" /\ res.ok
                                    THEN [e.substate EXCEPT !.contracts_created =
                                             Append(@, f.params.address)]
                                    ELSE e.substate]]
                   /\ history' = [history EXCEPT
                          !.reverted = @ \cup reverted,
                          !.created = IF f.kind = "create" /\ res.ok
                                      THEN Append(@, [by |-> frames[n - 1].id,
                                                      address |-> f.params.address])
                                      ELSE @]
                   /\ UNCHANGED <<substate, result, pc>>
    /\ UNCHANGED <<info, tx, next_id, begin>>

\* the return of the innermost invocation, with the trace it records in its
\* tracer, the trace finalize pops for Executed, and the join of exec_vm
VmReturn(vm_res) ==
    /\ VmReturnStep(vm_res, Top.depth)
    /\ LET f == Top
           n == Len(frames)
           res == exec_vm_result(f.depth, vm_res)
           tr == trace_result(tracers[n], f.kind, f.params, f.depth, res, tracers[n + 1].traces)
       IN  /\ threads' = exec_vm_joined(f.depth, threads)
           /\ IF n = 1 /\ tx # NoTx
              THEN /\ tracers' = <<>>
                   /\ trace' = pop(tr.traces)
              ELSE /\ tracers' = [SubSeq(tracers, 1, n) EXCEPT ![n] = tr]
                   /\ UNCHANGED trace
    /\ UNCHANGED sync

\* the Substates transact can hand to finalize with the result res of a
\* transaction of the given gas: empty after a revert, else what the execution
\* accrued, every storage clear having cost a unit of the gas consumed
FinalSubstates(gas, res) ==
    IF ~res.ok /\ res.err \in RevertErrors THEN {NewSubstate}
    ELSE {[NewSubstate EXCEPT !.suicides = s, !.sstore_clears_count = c] :
            s \in SUBSET {Sender, Contract},
            c \in 0..(gas - schedule.tx_gas - res.gas_left)}

\* the states transact is in when it calls finalize: the prepayment is made,
\* the top-level invocation has returned res and its snapshot is resolved
InitFinalize ==
    /\ \E gas \in schedule.tx_gas..FinalGas, gas_price \in 0..2 :
         tx = [t |-> [sig_valid |-> TRUE, nonce |-> 0, gas |-> gas, gas_price |-> gas_price,
                      value |-> 0, create |-> FALSE, to |-> Contract],
               check_nonce |-> TRUE]
    /\ \E author \in {Author, Sender, Contract} :
         info = [author |-> author, gas_limit |-> FinalGas, gas_used |-> 0]
    /\ \E sb \in 0..1, cb \in 0..1 :
         state = [a \in {Sender, Contract} |->
                    IF a = Sender THEN [NoAccount EXCEPT !.balance = sb, !.nonce = 1]
                    ELSE [NoAccount EXCEPT !.balance = cb, !.code = TRUE]]
    /\ \E res \in {Ok(g) : g \in 0..(tx.t.gas - schedule.tx_gas)} \cup {Err(e) : e \in VmErrors} :
         /\ substate \in FinalSubstates(tx.t.gas, res)
         /\ ret = [NoRet EXCEPT !.id = 1, !.kind = "call", !.path = "code", !.res = res,
                                !.post = Pre(state, <<>>, substate)]
    /\ snapshots = <<>>
    /\ pc = "finalize"
    /\ frames = <<>>
    /\ next_id = 1
    /\ result = NoResult
    /\ begin = Pre(<<>>, <<>>, NewSubstate)
    /\ history = NoHistory
    /\ tracers = <<NoopTracer>>
    /\ trace = <<>>
    /\ threads = <<"running">>
    /\ collection = new /\ returned = NoCall /\ debug_assertions = FALSE

\* Executive::finalize on its own
Finalize ==
    /\ pc = "finalize"
    /\ LET fin == finalize(state, tx.t, substate, ret.res, info)
       IN  /\ state' = fin.state
           /\ result' = fin.result
    /\ pc' = "done"
    /\ tracers' = <<>>
    /\ trace' = pop(tracers[1].traces)
    /\ UNCHANGED <<snapshots, info, tx, frames, substate, next_id, ret, begin, history, threads>>
    /\ UNCHANGED sync

NextFinalize == Finalize

SpecFinalize == InitFinalize /\ [][NextFinalize]_vars

\* transactions over the whole range of U256: gas, gas price and value up to
\* the largest U256
WideTransactions ==
    [sig_valid : BOOLEAN, nonce : 0..1, gas : 0..MaxU256, gas_price : {0, 1, MaxU256},
     value : {0, 1, MaxU256}, create : {FALSE}, to : {Plain}]

\* the states transact is called in: any sender balance and nonce, any block
InitValidate ==
    /\ \E b \in {0, 1, 2, MaxU256}, n \in 0..1 :
         state = [a \in {Sender} |-> [NoAccount EXCEPT !.balance = b, !.nonce = n]]
    /\ \E gas_limit \in {MaxGas, MaxU256}, gas_used \in 0..1 :
         info = [author |-> Author, gas_limit |-> gas_limit, gas_used |-> gas_used]
    /\ snapshots = <<>>
    /\ pc = "idle"
    /\ tx = NoTx
    /\ frames = <<>>
    /\ substate = NewSubstate
    /\ next_id = 0
    /\ ret = NoRet
    /\ result = NoResult
    /\ begin = Pre(<<>>, <<>>, NewSubstate)
    /\ history = NoHistory
    /\ tracers = <<>>
    /\ trace = <<>>
    /\ threads = <<"running">>
    /\ collection = new /\ returned = NoCall /\ debug_assertions = FALSE

\* transact_with_tracer from its entry to the dispatch of call or create: the
\* gates and the prepayment. Where gas_used + t.gas does not fit in 256 bits
\* the sum either wraps or the thread panics before anything is changed
ValidateGates(t, check_nonce) ==
    /\ pc = "idle"
    /\ tx' = [t |-> t, check_nonce |-> check_nonce]
    /\ begin' = Pre(state, snapshots, NewSubstate)
    /\ LET err == validate(state, info, t, check_nonce)
       IN  \/ /\ validate_overflows(state, info, t, check_nonce)
              /\ pc' = "panic"
              /\ UNCHANGED <<state, result>>
           \/ /\ err # "None"
              /\ result' = [kind |-> "err", err |-> err, executed |-> NoExecuted,
                            detail |-> error_detail(state, info, t, err)]
              /\ pc' = "done"
              /\ UNCHANGED state
           \/ /\ err = "None"
              /\ state' = prepay(state, t, err)
              /\ pc' = "dispatch"
              /\ UNCHANGED result
    /\ UNCHANGED <<snapshots, info, frames, substate, next_id, ret, history>>
    /\ UNCHANGED <<tracers, trace, threads>>
    /\ UNCHANGED sync

NextValidate ==
    \E t \in WideTransactions, check_nonce \in BOOLEAN : ValidateGates(t, check_nonce)

SpecValidate == InitValidate /\ [][NextValidate]_vars

\* correctly signed transactions with gas over the whole range of U256, to
\* the contract and to an account without code
BlockGasTransactions ==
    [sig_valid : {TRUE}, nonce : {0}, gas : 0..MaxU256, gas_price : 0..1, value : {0},
     create : {FALSE}, to : {Contract, Plain}]

\* the states such a transaction is executed in: a block with or without gas
\* used before, a sender that can or cannot pay
InitBlockGas ==
    /\ \E b \in {0, MaxU256} :
         state = [a \in {Sender, Contract} |->
                    IF a = Sender THEN [NoAccount EXCEPT !.balance = b]
                    ELSE [NoAccount EXCEPT !.code = TRUE]]
    /\ \E gas_limit \in {MaxGas, MaxU256}, gas_used \in 0..1 :
         info = [author |-> Author, gas_limit |-> gas_limit, gas_used |-> gas_used]
    /\ snapshots = <<>>
    /\ pc = "idle"
    /\ tx = NoTx
    /\ frames = <<>>
    /\ substate = NewSubstate
    /\ next_id = 0
    /\ ret = NoRet
    /\ result = NoResult
    /\ begin = Pre(<<>>, <<>>, NewSubstate)
    /\ history = NoHistory
    /\ tracers = <<>>
    /\ trace = <<>>
    /\ threads = <<"running">>
    /\ collection = new /\ returned = NoCall /\ debug_assertions = FALSE

\* Executive::transact over the whole range of U256: where gas_used + t.gas
\* does not fit in 256 bits the sum either panics, before anything is
\* changed, or wraps and transact goes on with the wrapped sum
TransactWide(t, check_nonce) ==
    \/ /\ pc = "idle"
       /\ validate_overflows(state, info, t, check_nonce)
       /\ tx' = [t |-> t, check_nonce |-> check_nonce]
       /\ begin' = Pre(state, snapshots, NewSubstate)
       /\ pc' = "panic"
       /\ UNCHANGED <<state, snapshots, info, frames, substate, next_id, ret, result, history>>
       /\ UNCHANGED <<tracers, trace, threads>>
       /\ UNCHANGED sync
    \/ Transact(t, check_nonce, FALSE)

NextBlockGas ==
    \/ \E t \in BlockGasTransactions, check_nonce \in BOOLEAN : TransactWide(t, check_nonce)
    \/ \E res \in {Ok(g) : g \in 0..MaxU256} \cup {Err(e) : e \in VmErrors} : VmReturn(res)

SpecBlockGas == InitBlockGas /\ [][NextBlockGas]_vars

\* the calls of transact whose tracing is followed: valid transactions that
\* pay no gas price, with and without tracing
TraceInputs ==
    {in \in Inputs : in.t.sig_valid /\ in.check_nonce /\ in.t.nonce = 0 /\ in.t.gas_price = 0}

\* the results of the interpreter that are followed where the kind of the
\* error is all that matters: any gas left, an error that reverts and the
\* error that does not
FollowedVmResults == {Ok(g) : g \in 0..MaxGas} \cup {Err("OutOfGas"), Err("Internal")}

\* no block gas used yet and no account at the address of the first create
InitTrace == Init /\ info.gas_used = 0 /\ DOMAIN state = {Sender, Contract}

\* the interpreter clears storage, logs, calls and creates
NextTrace ==
    \/ \E in \in TraceInputs, tracing \in BOOLEAN : Transact(in.t, in.check_nonce, tracing)
    \/ ExtSstore(0)
    \/ ExtLog
    \/ \E to \in {Contract, Builtin, Plain}, gas \in 0..MaxGas, value \in 0..1 : ExtCall(to, gas, value)
    \/ \E gas \in 0..MaxGas, value \in 0..1 : ExtCreate(gas, value)
    \/ \E res \in FollowedVmResults : VmReturn(res)

\* transact with and without tracing
SpecTrace == InitTrace /\ [][NextTrace]_vars

\* the depths of the Executives call and create are called on, made by
\* from_parent: the depth at which exec_vm starts a thread and the one below it
Depths ==
    {from_parent(MAX_VM_DEPTH_FOR_THREAD - 3), from_parent(MAX_VM_DEPTH_FOR_THREAD - 2)}

\* the ActionParams call and create are called with: sent by Sender, the value
\* transferred or apparent
DirectParams(st) ==
    [code_address : {Contract}, address : {Contract}, sender : {Sender}, gas : {MaxGas - 1},
     value : {1}, transfer : BOOLEAN, has_code : {TRUE}]
    \cup
    [code_address : {Builtin}, address : {Builtin}, sender : {Sender}, gas : 0..1,
     value : 0..1, transfer : BOOLEAN, has_code : {FALSE}]
    \cup
    [code_address : {Plain}, address : {Plain}, sender : {Sender}, gas : 0..1,
     value : 0..1, transfer : BOOLEAN, has_code : {FALSE}]

DirectCreateParams(st) ==
    [code_address : {contract_address(Sender, nonce(st, Sender))},
     address : {contract_address(Sender, nonce(st, Sender))}, sender : {Sender},
     gas : {MaxGas - 1}, value : {1}, transfer : BOOLEAN, has_code : {TRUE}]

\* Executive::call or Executive::create called on an Executive of the given
\* depth, outside transact, with an empty Substate and the tracer tr: up to
\* its return or up to the interpreter's start; the state transition
DirectStep(kind, p, depth, tr) ==
    /\ pc = "idle"
    /\ begin' = Pre(state, snapshots, NewSubstate)
    /\ LET m == [state |-> state, snapshots |-> snapshots]
           c == IF kind = "create" THEN create(m, p, depth, tr) ELSE call(m, p, depth, tr)
           pre == Pre(state, snapshots, NewSubstate)
       IN  /\ state' = c.m.state
           /\ snapshots' = c.m.snapshots
           /\ next_id' = 1
           /\ IF c.running
              THEN /\ frames' = <<Frame(1, kind, depth, p, pre)>>
                   /\ pc' = "vm"
                   /\ ret' = NoRet
                   /\ UNCHANGED history
              ELSE /\ ret' = Returned(Frame(1, kind, depth, p, pre), c.path, c.res, c.op,
                                      c.mid, Pre(c.m.state, c.m.snapshots, NewSubstate))
                   /\ pc' = "returned"
                   /\ history' = IF c.op = "revert"
                                 THEN [history EXCEPT !.reverted = @ \cup {1}]
                                 ELSE history
                   /\ UNCHANGED frames
    /\ UNCHANGED <<info, tx, substate, result>>

\* call or create called outside transact, with a NoopTracer and the threads
\* of exec_vm
Direct(kind, p, depth) ==
    /\ DirectStep(kind, p, depth, NoopTracer)
    /\ LET m == [state |-> state, snapshots |-> snapshots]
           c == IF kind = "create" THEN create(m, p, depth, NoopTracer)
                ELSE call(m, p, depth, NoopTracer)
       IN  IF c.running
           THEN /\ tracers' = <<c.tracer, subtracer(c.tracer)>>
                /\ threads' = exec_vm(depth, threads)
           ELSE /\ tracers' = <<c.tracer>>
                /\ UNCHANGED threads
    /\ UNCHANGED trace
    /\ UNCHANGED sync

InitCall == Init /\ info.gas_used = 0

NextCall ==
    \/ \E p \in DirectParams(state), depth \in Depths : Direct("call", p, depth)
    \/ \E p \in DirectCreateParams(state), depth \in Depths : Direct("create", p, depth)
    \/ ExtSstore(0)
    \/ ExtLog
    \/ ExtSuicide
    \/ \E to \in {Contract, Builtin, Plain}, gas \in 0..MaxGas, value \in 0..1 : ExtCall(to, gas, value)
    \/ \E gas \in 0..MaxGas, value \in 0..1 : ExtCreate(gas, value)
    \/ \E res \in FollowedVmResults : VmReturn(res)

\* call and create called on Executives of several depths
SpecCall == InitCall /\ [][NextCall]_vars

\* the creation transactions, with and without the nonce check
CreateInputs == {in \in Inputs : in.t.create /\ in.t.sig_valid}

\* the states a creation transaction is executed in: any nonce of the sender,
\* with or without other accounts, one of them at the address of the create
InitAddress ==
    /\ \E n \in 0..2, others \in SUBSET {Contract, Plain, contract_address(Sender, 1),
                                         contract_address(Sender, 2)} :
         state = [a \in {Sender} \cup others |->
                    IF a = Sender THEN [NoAccount EXCEPT !.balance = SenderBalance, !.nonce = n]
                    ELSE IF a = Contract THEN [NoAccount EXCEPT !.code = TRUE, !.storage = 1]
                    ELSE [NoAccount EXCEPT !.balance = 1]]
    /\ \E used \in 0..1 : info = [author |-> Author, gas_limit |-> MaxGas, gas_used |-> used]
    /\ snapshots = <<>>
    /\ pc = "idle"
    /\ tx = NoTx
    /\ frames = <<>>
    /\ substate = NewSubstate
    /\ next_id = 0
    /\ ret = NoRet
    /\ result = NoResult
    /\ begin = Pre(<<>>, <<>>, NewSubstate)
    /\ history = NoHistory
    /\ tracers = <<>>
    /\ trace = <<>>
    /\ threads = <<"running">>
    /\ collection = new /\ returned = NoCall /\ debug_assertions = FALSE

NextAddress ==
    \/ \E in \in CreateInputs : Transact(in.t, in.check_nonce, FALSE)
    \/ \E res \in FollowedVmResults : VmReturn(res)

\* creation transactions from senders of several nonces
SpecAddress == InitAddress /\ [][NextAddress]_vars

\* the lists of at most MaxBatch elements of S
Lists(S) == UNION {[1..k -> S] : k \in 0..MaxBatch}

\* lists in the order of the chain, and in that or the reverse order
Ascending(S) == {l \in Lists(S) : \A i \in 1..(Len(l) - 1) : l[i] < l[i + 1]}

Ordered(S) == Ascending(S) \cup {l \in Lists(S) : \A i \in 1..(Len(l) - 1) : l[i] > l[i + 1]}

\* the downloader starts with BlockCollection::new; the Executive is idle
InitBlocks ==
    /\ collection = new
    /\ returned = NoCall
    /\ debug_assertions \in BOOLEAN
    /\ state = [a \in {Sender} |-> [NoAccount EXCEPT !.balance = SenderBalance]]
    /\ info = [author |-> Author, gas_limit |-> MaxGas, gas_used |-> 0]
    /\ snapshots = <<>>
    /\ pc = "idle"
    /\ tx = NoTx
    /\ frames = <<>>
    /\ substate = NewSubstate
    /\ next_id = 0
    /\ ret = NoRet
    /\ result = NoResult
    /\ begin = Pre(<<>>, <<>>, NewSubstate)
    /\ history = NoHistory
    /\ tracers = <<>>
    /\ trace = <<>>
    /\ threads = <<"running">>

\* a call on the collection returns value; the Executive is left alone
Returns(op, value) ==
    /\ ~returned.panicked
    /\ returned' = Observe([NoCall EXCEPT !.op = op, !.value = value], collection, collection')
    /\ UNCHANGED <<transition, tracers, trace, threads, debug_assertions>>

Clear ==
    /\ collection' = clear(collection)
    /\ Returns("clear", <<>>)

\* reset_to, with the hashes it was given
ResetTo(hashes) ==
    /\ ~returned.panicked
    /\ collection' = reset_to(collection, hashes)
    /\ returned' = Observe([NoCall EXCEPT !.op = "reset_to", !.hashes = hashes],
                           collection, collection')
    /\ UNCHANGED <<transition, tracers, trace, threads, debug_assertions>>

\* insert_headers returns, or panics on a failed debug_assert! leaving the
\* collection as the headers before left it
InsertHeaders(headers) ==
    /\ ~returned.panicked
    /\ LET r == insert_headers(collection, headers, debug_assertions)
       IN  /\ collection' = r.c
           /\ returned' = Observe([NoCall EXCEPT !.op = "insert_headers",
                                                 !.panicked = r.panicked], collection, r.c)
    /\ UNCHANGED <<transition, tracers, trace, threads, debug_assertions>>

InsertBodies(bodies) ==
    /\ collection' = insert_bodies(collection, bodies)
    /\ Returns("insert_bodies", <<>>)

NeededHeaders(count, ignore_downloading) ==
    /\ collection' = needed_headers(collection, count, ignore_downloading).c
    /\ Returns("needed_headers", needed_headers(collection, count, ignore_downloading).value)

NeededBodies(count, ignore_downloading) ==
    /\ collection' = needed_bodies(collection, count, ignore_downloading).c
    /\ Returns("needed_bodies", needed_bodies(collection, count, ignore_downloading).value)

ClearDownload(hash) ==
    /\ collection' = clear_download(collection, hash)
    /\ Returns("clear_download", <<>>)

Drain ==
    /\ collection' = drain(collection).c
    /\ Returns("drain", drain(collection).value)

NextBlocks ==
    \/ Clear
    \/ \E hashes \in Ascending(0..MaxHash) : ResetTo(hashes)
    \/ \E headers \in Ordered(0..MaxHash) : InsertHeaders(headers)
    \/ \E bodies \in Ascending(0..(MaxHash \div 2 + 1)) : InsertBodies(bodies)
    \/ \E count \in {1, MaxBatch}, ignore_downloading \in BOOLEAN :
         NeededHeaders(count, ignore_downloading)
    \/ \E count \in {1, MaxBatch}, ignore_downloading \in BOOLEAN :
         NeededBodies(count, ignore_downloading)
    \/ \E hash \in 0..MaxHash : ClearDownload(hash)
    \/ Drain

SpecBlocks == InitBlocks /\ [][NextBlocks]_vars

\* the results of the interpreter that are followed: every result for the
\* top-level invocation; for the invocations below it any gas left, the error
\* that does not revert and, of the errors that revert, OutOfGas and OutOfStack
ReturnedVmResults ==
    IF Len(frames) = 1
    THEN {Ok(g) : g \in 0..MaxGas} \cup {Err(e) : e \in VmErrors}
    ELSE FollowedVmResults \cup {Err("OutOfStack")}

Next ==
    \/ \E in \in Inputs : Transact(in.t, in.check_nonce, FALSE)
    \/ \E v \in 0..1 : ExtSstore(v)
    \/ ExtLog
    \/ ExtSuicide
    \/ \E to \in {Contract, Builtin, Plain}, gas \in 0..MaxGas, value \in 0..1 : ExtCall(to, gas, value)
    \/ \E gas \in 0..MaxGas, value \in 0..1 : ExtCreate(gas, value)
    \/ \E res \in ReturnedVmResults : VmReturn(res)

Spec == Init /\ [][Next]_vars

----------------------------------------------------------------------------
(* Properties *)

ValidationErrors ==
    {"TransactionMalformed", "NotEnoughBaseGas", "InvalidNonce", "BlockGasLimitReached",
     "NotEnoughCash"}

\* an invocation returned in the last step
Observed == ret.id # 0

\* ... with a result of the revert class
Reverted == Observed /\ ~ret.res.ok /\ ret.res.err \in RevertErrors

\* ... with a result of the confirm class
Confirmed == Observed /\ (ret.res.ok \/ ret.res.err = "Internal")

\* transact has returned after validation passed; ret is then the top-level invocation
Finalized == pc = "done" /\ result.err \notin ValidationErrors

\* C1: a call or create whose result is OutOfGas, BadJumpDestination,
\* BadInstruction, StackUnderflow or OutOfStack leaves the world state as it
\* was immediately before the invocation took its snapshot, value transfer included
C1_RevertedInvocationAtomic ==
    Reverted => ret.post.state = ret.pre.state

\* a reverted invocation that had transferred value and changed the world state
C1_Witness ==
    /\ Reverted
    /\ ret.params.value > 0
    /\ ret.mid # ret.pre.state
    /\ ret.post.state = ret.pre.state

\* C2: when transact returns a validation error the world state (the sender's
\* nonce and balance, the author's balance) is unchanged and no snapshot is open
C2_ValidationPure ==
    (pc = "done" /\ result.err \in ValidationErrors) =>
        /\ result.kind = "err"
        /\ state = begin.state
        /\ snapshots = begin.snapshots
        /\ frames = <<>>

\* transact rejected a transaction for lack of cash
C2_Witness ==
    /\ pc = "done"
    /\ result.err = "NotEnoughCash"
    /\ balance(state, Sender) = SenderBalance
    /\ nonce(state, Sender) = 0

\* C3 as stated: for every Executed, gas_used + refunded == gas
C3_GasConservation ==
    (pc = "done" /\ result.kind = "ok") =>
        result.executed.gas_used + result.executed.refunded = result.executed.gas

\* C3 as amended: Executed.gas is the transaction's gas, and gas_used + refunded
\* is the gas less the gas the top-level invocation left before the refund
\* (none on an error): it equals gas only when the invocation left no gas
C3_GasUsedPlusRefunded ==
    (pc = "done" /\ result.kind = "ok") =>
        /\ result.executed.gas = tx.t.gas
        /\ result.executed.gas_used + result.executed.refunded
             = tx.t.gas - (IF ret.res.ok THEN ret.res.gas_left ELSE 0)

\* a successful transaction with a refund whose top-level invocation left gas
C3_Witness ==
    /\ pc = "done"
    /\ result.kind = "ok"
    /\ result.executed.refunded > 0
    /\ ret.res.ok
    /\ ret.res.gas_left > 0

\* C4: every call or create pushes one snapshot on entry and resolves it once
\* on every return path: while invocations run there is one open snapshot per
\* running invocation, and at a return the stack is the stack of the entry
C4_SnapshotDiscipline ==
    /\ Len(snapshots) = Len(frames)
    /\ \A i \in 1..Len(frames) : Len(frames[i].pre.snapshots) = i - 1
    /\ Observed => ret.post.snapshots = ret.pre.snapshots
    /\ Observed => ret.op \in {"revert", "clear"}

\* a nested invocation, two levels below the top, returned
C4_Witness ==
    /\ Observed
    /\ ret.depth = 2
    /\ Len(ret.pre.snapshots) = 2
    /\ Len(snapshots) = 2

\* C5: enact_result reverts the snapshot exactly for the five revert errors
\* and clears it, keeping the state changes, exactly for success or Internal
C5_Classification ==
    (Observed /\ ret.path = "code") =>
        /\ ret.op = "revert" <=> (~ret.res.ok /\ ret.res.err \in RevertErrors)
        /\ ret.op = "clear" <=> (ret.res.ok \/ ret.res.err = "Internal")
        /\ ret.op = "revert" => ret.post.state = ret.pre.state
        /\ ret.op = "clear" => ret.post.state = ret.mid

\* an invocation ended with the Internal error and its state changes were kept
C5_Witness ==
    /\ Observed
    /\ ret.path = "code"
    /\ ret.res.err = "Internal"
    /\ ret.op = "clear"
    /\ ret.post.state # ret.pre.state

\* C6: the unconfirmed Substate is accrued into the caller's Substate exactly
\* when the result is of the confirm class; on a revert the caller's Substate
\* is what it was before the invocation
C6_MergeOnlyOnConfirm ==
    (Observed /\ ret.path = "code") =>
        /\ Confirmed => ret.post.substate = accrue(ret.pre.substate, ret.un)
        /\ Reverted => ret.post.substate = ret.pre.substate

\* a nested invocation was reverted with a log in its unconfirmed Substate
C6_Witness ==
    /\ Reverted
    /\ ret.path = "code"
    /\ ret.depth > 0
    /\ ret.un.logs # <<>>
    /\ ret.post.substate = ret.pre.substate

\* C7: when a nested invocation is reverted, the world state, the open
\* snapshots and the Substate of its parent (with what confirmed siblings
\* merged into it) are what they were immediately before that invocation began
C7_NestedRevertKeepsParent ==
    (Reverted /\ ret.depth > 0) =>
        /\ pc = "vm"
        /\ Top.depth = ret.depth - 1
        /\ state = ret.pre.state
        /\ snapshots = ret.pre.snapshots
        /\ Top.un = ret.pre.substate

\* a nested invocation was reverted under a parent that had changed the world
\* state and had a confirmed sibling's entry in its Substate
C7_Witness ==
    /\ Reverted
    /\ ret.depth > 0
    /\ ret.mid # ret.pre.state
    /\ Top.un.contracts_created # <<>>
    /\ state # Last(snapshots)

\* C8: once validation has passed transact returns Ok(Executed) for every
\* top-level VM result but Internal, and an error only for Internal
C8_NoAbortAfterValidation ==
    (pc = "done" /\ validate(begin.state, info, tx.t, tx.check_nonce) = "None") =>
        /\ ret.id = 1
        /\ result.kind \in {"ok", "err"}
        /\ result.kind = "err" <=> (~ret.res.ok /\ ret.res.err = "Internal")
        /\ result.kind = "err" => result.err = "Internal"

\* transact returned Ok(Executed) although the top-level invocation failed
C8_Witness ==
    /\ Finalized
    /\ result.kind = "ok"
    /\ ~ret.res.ok
    /\ ret.path = "code"

\* C9 as stated: whenever transact returns an ExecutionError the world state
\* is the state before transact was called
C9_ErrorNotApplied ==
    (pc = "done" /\ result.kind = "err") => state = begin.state

\* C10: when the top-level invocation ends with a VM error other than
\* Internal, transact returns an Executed with gas_used the transaction's gas,
\* no refund, no logs and no contracts created
C10_FailedExecuted ==
    (Finalized /\ ~ret.res.ok /\ ret.res.err # "Internal") =>
        /\ result.kind = "ok"
        /\ result.executed.gas = tx.t.gas
        /\ result.executed.gas_used = tx.t.gas
        /\ result.executed.refunded = 0
        /\ result.executed.logs = <<>>
        /\ result.executed.contracts_created = <<>>

\* the top-level invocation failed after it had logged, cleared storage and
\* left part of its gas unspent
C10_Witness ==
    /\ Finalized
    /\ ~ret.res.ok
    /\ ret.res.err = "OutOfStack"
    /\ ret.un.logs # <<>>
    /\ ret.un.sstore_clears_count > 0


\* the addresses a comparison of two world states ranges over
Addresses(st1, st2) == DOMAIN st1 \cup DOMAIN st2 \cup {Sender, info.author}

GasLeftPrerefund == IF ret.res.ok THEN ret.res.gas_left ELSE 0

\* the refund the confirmed Substate allows before the cap
RefundsBound ==
    schedule.sstore_refund_gas * substate.sstore_clears_count
    + schedule.suicide_refund_gas * Cardinality(substate.suicides)

\* C12: the refund is the smaller of sstore_refund_gas * storage clears +
\* suicide_refund_gas * suicides and half (rounded down) of the gas consumed,
\* the gas consumed being the transaction's gas less the gas the top-level
\* invocation left (0 on an error); it never exceeds half of the gas consumed
C12_RefundCapped ==
    (Finalized /\ result.kind = "ok") =>
        /\ result.executed.refunded =
             (IF ret.res.ok
              THEN Min(RefundsBound, (tx.t.gas - GasLeftPrerefund) \div 2)
              ELSE 0)
        /\ (~ret.res.ok) => RefundsBound = 0
        /\ 2 * result.executed.refunded <= tx.t.gas - GasLeftPrerefund

\* a refund below the cap was paid in full, the invocation having left gas
C12_Witness ==
    /\ Finalized
    /\ result.kind = "ok"
    /\ ret.res.gas_left > 0
    /\ RefundsBound > 0
    /\ RefundsBound < (tx.t.gas - GasLeftPrerefund) \div 2
    /\ result.executed.refunded = RefundsBound

\* a refund was cut to half of the gas consumed
C12_WitnessCapped ==
    /\ Finalized
    /\ result.kind = "ok"
    /\ RefundsBound > (tx.t.gas - GasLeftPrerefund) \div 2
    /\ result.executed.refunded = (tx.t.gas - GasLeftPrerefund) \div 2
    /\ result.executed.refunded > 0

\* C13: for every top-level result finalize adds gas_left * gas_price to the
\* sender's balance and gas_used * gas_price to the author's, gas_left being
\* the gas left before the refund plus the refund and gas_used the
\* transaction's gas less gas_left; the balances are those of the accounts
\* that finalize does not remove as suicided
C13_FinalizeCredits ==
    Finalized =>
        LET refunded == Min(RefundsBound, (tx.t.gas - GasLeftPrerefund) \div 2)
            gas_left == GasLeftPrerefund + refunded
            gas_used == tx.t.gas - gas_left
        IN  \A a \in Addresses(state, ret.post.state) \ substate.suicides :
              balance(state, a) = balance(ret.post.state, a)
                                  + (IF a = Sender THEN gas_left * tx.t.gas_price ELSE 0)
                                  + (IF a = info.author THEN gas_used * tx.t.gas_price ELSE 0)

\* the sender, who is also the author, was credited for the gas left with a
\* refund and for the gas used, after an Internal error
C13_Witness ==
    /\ Finalized
    /\ result.kind = "err"
    /\ info.author = Sender
    /\ Sender \notin substate.suicides
    /\ RefundsBound > 0
    /\ tx.t.gas_price > 0
    /\ balance(state, Sender) = balance(ret.post.state, Sender) + tx.t.gas * tx.t.gas_price

\* C14: after finalize no address of the confirmed Substate's suicide set
\* exists in the world state, the removal coming after the credits: an
\* address that is both suicided and credited (the sender, the author) does
\* not exist afterwards
C14_SuicidesAppliedLast ==
    Finalized =>
        /\ \A a \in substate.suicides : a \notin DOMAIN state
        /\ \A a \in DOMAIN ret.post.state \cup {Sender, info.author} :
             a \notin substate.suicides => a \in DOMAIN state

\* the author and the sender were both suicided and both credited
C14_Witness ==
    /\ Finalized
    /\ info.author = Contract
    /\ substate.suicides = {Sender, Contract}
    /\ tx.t.gas_price > 0
    /\ GasLeftPrerefund > 0
    /\ Sender \notin DOMAIN state
    /\ Contract \notin DOMAIN state


\* transact has gone through its validation
Validated == pc \notin {"idle", "finalize"}

\* the conditions of the five gates, as the numbers stand
Malformed == ~tx.t.sig_valid

BelowBaseGas == tx.t.gas < schedule.tx_gas

NonceMismatch == tx.check_nonce /\ tx.t.nonce # nonce(begin.state, Sender)

OverBlockGasLimit == info.gas_used + tx.t.gas > info.gas_limit

TotalCost == tx.t.value + tx.t.gas * tx.t.gas_price

CannotPay == balance(begin.state, Sender) < TotalCost

FirstViolatedGate ==
    IF Malformed THEN "TransactionMalformed"
    ELSE IF BelowBaseGas THEN "NotEnoughBaseGas"
    ELSE IF NonceMismatch THEN "InvalidNonce"
    ELSE IF OverBlockGasLimit THEN "BlockGasLimitReached"
    ELSE IF CannotPay THEN "NotEnoughCash"
    ELSE "None"

\* C15 as stated: the gates are evaluated in the order sender recovery,
\* intrinsic gas, nonce, block gas limit, balance, and a transaction is
\* rejected with the error of the earliest gate it violates
C15_GateOrder ==
    Validated => result.err = FirstViolatedGate

\* C16: when the earlier gates pass, transact fails with NotEnoughCash exactly
\* when the sender's balance is below value + gas * gas_price computed without
\* wrap-around; required is that total cost and got the balance; a balance
\* equal to the total cost is accepted
C16_BalanceGate ==
    Validated =>
        /\ (~Malformed /\ ~BelowBaseGas /\ ~NonceMismatch /\ ~OverBlockGasLimit) =>
              /\ result.err = "NotEnoughCash" <=> CannotPay
              /\ balance(begin.state, Sender) = TotalCost => result.err \notin ValidationErrors
        /\ result.err = "NotEnoughCash" =>
              /\ CannotPay
              /\ result.detail.required = TotalCost
              /\ result.detail.got = balance(begin.state, Sender)

\* a transaction was rejected whose total cost does not fit in 256 bits and,
\* reduced to 256 bits, would have been within the sender's balance
C16_Witness ==
    /\ Validated
    /\ result.err = "NotEnoughCash"
    /\ result.detail.required > MaxU256
    /\ result.detail.required % U256Modulus <= balance(begin.state, Sender)

\* C17: with check_nonce, transact fails with InvalidNonce exactly when the
\* transaction's nonce differs from the sender's account nonce, expected being
\* the account nonce and got the transaction's; without check_nonce it never
\* returns InvalidNonce
C17_NonceGate ==
    Validated =>
        /\ (~Malformed /\ ~BelowBaseGas) =>
              (result.err = "InvalidNonce" <=>
                  (tx.check_nonce /\ tx.t.nonce # nonce(begin.state, Sender)))
        /\ ~tx.check_nonce => result.err # "InvalidNonce"
        /\ result.err = "InvalidNonce" =>
              /\ result.detail.expected = nonce(begin.state, Sender)
              /\ result.detail.got = tx.t.nonce
              /\ result.detail.expected # result.detail.got

\* without check_nonce a transaction whose nonce is not the account's passed
\* the validation
C17_Witness ==
    /\ pc = "dispatch"
    /\ ~tx.check_nonce
    /\ tx.t.nonce # nonce(begin.state, Sender)
    /\ nonce(state, Sender) = nonce(begin.state, Sender) + 1

\* C18 as stated: when the earlier gates pass, transact fails with
\* BlockGasLimitReached exactly when the block's gas used plus the
\* transaction's gas is greater than the block gas limit
C18_BlockGasLimitGate ==
    (Validated /\ ~Malformed /\ ~BelowBaseGas /\ ~NonceMismatch) =>
        (result.err = "BlockGasLimitReached" <=> OverBlockGasLimit)


\* transact has dispatched the top-level call or create
Dispatched == pc = "vm" \/ Finalized

\* the top-level invocation at its entry: its params and kind, and the world
\* state, snapshot stack and Substate transact dispatched it with
TopLevel ==
    IF frames # <<>>
    THEN [params |-> frames[1].params, kind |-> frames[1].kind, pre |-> frames[1].pre]
    ELSE [params |-> ret.params, kind |-> ret.kind, pre |-> ret.pre]

\* C19: for every transaction that passes the validation, at the dispatch of
\* create or call the sender's nonce is one more and the sender's balance
\* gas * gas_price less than before transact (the value is not debited); the
\* two changes are outside any snapshot, and no later revert rolls them back
C19_PointOfNoReturn ==
    Dispatched =>
        /\ TopLevel.pre.state =
             sub_balance(inc_nonce(begin.state, Sender), Sender, tx.t.gas * tx.t.gas_price)
        /\ nonce(TopLevel.pre.state, Sender) = nonce(begin.state, Sender) + 1
        /\ balance(TopLevel.pre.state, Sender)
             = balance(begin.state, Sender) - tx.t.gas * tx.t.gas_price
        /\ TopLevel.pre.snapshots = <<>>
        /\ \A i \in 1..Len(snapshots) :
             /\ nonce(snapshots[i], Sender) = nonce(begin.state, Sender) + 1
             /\ balance(snapshots[i], Sender) <= balance(TopLevel.pre.state, Sender)
        /\ nonce(state, Sender) = nonce(begin.state, Sender) + 1
        /\ (Finalized /\ Reverted) => ret.post.state = TopLevel.pre.state

\* the top-level invocation of a transaction with a value and a gas price was
\* reverted after it had changed the world state: the prepayment stayed
C19_Witness ==
    /\ Finalized
    /\ Reverted
    /\ tx.t.value > 0
    /\ tx.t.gas_price > 0
    /\ ret.mid # ret.pre.state
    /\ nonce(ret.post.state, Sender) = 1
    /\ balance(ret.post.state, Sender) = SenderBalance - tx.t.gas

\* C20: transact rejects with NotEnoughBaseGas{required, got} when the
\* transaction's gas is below the intrinsic gas, and otherwise dispatches
\* create or call with params.gas the transaction's gas less the intrinsic
\* gas, and with a fresh empty Substate
C20_InitGas ==
    /\ Validated =>
         /\ result.err = "NotEnoughBaseGas" <=> (~Malformed /\ BelowBaseGas)
         /\ result.err = "NotEnoughBaseGas" =>
              /\ result.detail.required = schedule.tx_gas
              /\ result.detail.got = tx.t.gas
         /\ (result.err \notin ValidationErrors) => Dispatched
    /\ Dispatched =>
         /\ TopLevel.params.gas = tx.t.gas - schedule.tx_gas
         /\ TopLevel.kind = (IF tx.t.create THEN "create" ELSE "call")
         /\ TopLevel.pre.substate = NewSubstate
         /\ frames # <<>> => frames[1].gas <= TopLevel.params.gas

\* a create was dispatched with gas to spend, the intrinsic gas taken off
C20_Witness ==
    /\ pc = "vm"
    /\ Len(frames) = 1
    /\ tx.t.create
    /\ frames[1].params.gas > 0
    /\ frames[1].params.gas = tx.t.gas - schedule.tx_gas
    /\ frames[1].gas = frames[1].params.gas
    /\ frames[1].un = NewSubstate
    /\ substate = NewSubstate


\* the steps of call and create outside transact, with exec_vm taking the
\* inline path at every depth
InlineNext ==
    \/ \E p \in DirectParams(state), depth \in Depths : DirectStep("call", p, depth, NoopTracer)
    \/ \E p \in DirectCreateParams(state), depth \in Depths :
         DirectStep("create", p, depth, NoopTracer)
    \/ \E v \in 0..1 : ExtSstore(v)
    \/ ExtLog
    \/ ExtSuicide
    \/ \E to \in {Contract, Builtin, Plain}, gas \in 0..MaxGas, value \in 0..1 :
         ExtCallStep(to, gas, value, NoopTracer)
    \/ \E gas \in 0..MaxGas, value \in 0..1 : ExtCreateStep(gas, value, NoopTracer)
    \/ \E res \in {Ok(g) : g \in 0..MaxGas} \cup {Err(e) : e \in VmErrors} :
         VmReturnStep(res, new_depth)

ThreadedFrames == {i \in 1..Len(frames) : vm_in_thread(frames[i].depth)}

NoopNext ==
    \/ \E in \in TraceInputs : TransactStep(in.t, in.check_nonce, NoopTracer)
    \/ \E v \in 0..1 : ExtSstore(v)
    \/ ExtLog
    \/ ExtSuicide
    \/ \E to \in {Contract, Builtin, Plain}, gas \in 0..MaxGas, value \in 0..1 :
         ExtCallStep(to, gas, value, NoopTracer)
    \/ \E gas \in 0..MaxGas, value \in 0..1 : ExtCreateStep(gas, value, NoopTracer)
    \/ \E res \in {Ok(g) : g \in 0..MaxGas} \cup {Err(e) : e \in VmErrors} :
         VmReturnStep(res, Top.depth)

\* C23: tracing does not affect the state transition: every step of transact
\* with the recording tracer is, on the world state, the snapshots, the
\* Substates, the results of the invocations and the result of transact (the
\* Ok or Err outcome and every field of Executed but trace), the step transact
\* takes with the no-op tracer
C23_TracingNotObservable == [][NoopNext]_transition

\* transact with tracing returned an Executed with a trace that has a sub-trace
C23_Witness ==
    /\ Finalized
    /\ result.kind = "ok"
    /\ trace # <<>>
    /\ trace[1].subs # <<>>
    /\ state # begin.state


\* the world state after the value transfer of the observed call: the value
\* moved from params.sender to params.address, or nothing moved
AfterTransfer ==
    IF ret.params.transfer
    THEN transfer_balance(ret.pre.state, ret.params.sender, ret.params.address, ret.params.value)
    ELSE ret.pre.state

\* C24: a call to a builtin whose cost is at most params.gas clears the
\* snapshot, keeping the value transfer, and returns params.gas - cost; a call
\* whose cost exceeds params.gas reverts the snapshot, undoing the value
\* transfer, and fails with OutOfGas; the caller's Substate is unchanged
C24_BuiltinDispatch ==
    (Observed /\ ret.path = "builtin") =>
        LET cost == cost_of_builtin(ret.params.code_address)
        IN  /\ is_builtin(ret.params.code_address)
            /\ cost <= ret.params.gas =>
                 /\ ret.res = Ok(ret.params.gas - cost)
                 /\ ret.op = "clear"
                 /\ ret.post.state = AfterTransfer
            /\ cost > ret.params.gas =>
                 /\ ret.res = Err("OutOfGas")
                 /\ ret.op = "revert"
                 /\ ret.mid = AfterTransfer
                 /\ ret.post.state = ret.pre.state
            /\ ret.post.substate = ret.pre.substate
            /\ ret.post.snapshots = ret.pre.snapshots

\* a nested call paid a builtin its whole gas and the value it sent was kept
C24_Witness ==
    /\ Observed
    /\ ret.path = "builtin"
    /\ ret.depth > 0
    /\ ret.params.gas = cost_of_builtin(ret.params.code_address)
    /\ ret.res = Ok(0)
    /\ ret.params.value > 0
    /\ balance(ret.post.state, Builtin) = balance(ret.pre.state, Builtin) + ret.params.value


\* C25: builtin calls are traced only at the top level: no tracer holds a
\* trace of a call to a builtin made at depth > 0, whether the builtin was
\* affordable or ran out of gas, and a traced transaction to a builtin has
\* exactly one trace, of depth 0 and without sub-traces
C25_BuiltinTracedAtTopOnly ==
    /\ \A i \in 1..Len(tracers) : \A k \in 1..Len(tracers[i].traces) :
          is_builtin(tracers[i].traces[k].to) => tracers[i].traces[k].depth = 0
    /\ (Finalized /\ ret.path = "builtin" /\ ret.depth = 0 /\ trace # <<>>) =>
          /\ Len(trace) = 1
          /\ trace[1].depth = 0
          /\ trace[1].subs = <<>>


\* the trace of the observed call as a successful call that used no gas and
\* made no calls
PlainTrace ==
    [depth |-> ret.depth, kind |-> "call", from |-> ret.params.sender, to |-> ret.params.address,
     value |-> ret.params.value, gas |-> ret.params.gas, failed |-> FALSE, gas_used |-> 0,
     subs |-> <<>>, delegate_call |-> ret.params.code_address # ret.params.address]

\* a step in which a call to a destination that is no builtin and has no code returns
PlainStep == ret' # ret /\ ret'.path = "plain"

\* C26: a call to a destination that is no builtin and has no code returns
\* Ok(params.gas), clears its snapshot so that the value transfer is kept,
\* leaves the caller's Substate unchanged and, under a recording tracer, adds
\* to the tracer exactly one trace: a successful call of gas_used 0 without
\* sub-traces
C26_PlainTransfer ==
    [][PlainStep =>
        /\ ~is_builtin(ret'.params.code_address) /\ ~ret'.params.has_code
        /\ ret'.res = Ok(ret'.params.gas)
        /\ ret'.op = "clear"
        /\ ret'.post.state = AfterTransfer'
        /\ ret'.post.snapshots = ret'.pre.snapshots
        /\ ret'.post.substate = ret'.pre.substate
        /\ IF ret'.depth = 0
           THEN trace' \in {<<>>, <<PlainTrace'>>}
           ELSE /\ state' = AfterTransfer'
                /\ Len(tracers') = Len(tracers)
                /\ \A i \in 1..(Len(tracers) - 1) : tracers'[i] = tracers[i]
                /\ Last(tracers').traces =
                     IF Last(tracers).recording
                     THEN Append(Last(tracers).traces, PlainTrace')
                     ELSE Last(tracers).traces]_vars

\* a traced transaction was a plain transfer of a value with gas to spare
C26_Witness ==
    /\ Finalized
    /\ ret.path = "plain"
    /\ ret.depth = 0
    /\ ret.params.value > 0
    /\ ret.params.gas > 0
    /\ trace = <<PlainTrace>>
    /\ balance(state, Plain) > balance(begin.state, Plain)


\* the invocation a step begins: the one pushed on frames when its interpreter
\* starts, else the one observed at its return
Begun ==
    IF Len(frames') > Len(frames)
    THEN [params |-> Last(frames').params, kind |-> Last(frames').kind, started |-> TRUE]
    ELSE [params |-> ret'.params, kind |-> ret'.kind, started |-> FALSE]

\* st2 is st after the value of the params p moved as p says: a transferred
\* value from p.sender to p.address and nothing else, an apparent value not at all
ValueMoved(st, p, st2) ==
    IF p.transfer
    THEN \A a \in DOMAIN st \cup DOMAIN st2 \cup {p.sender, p.address} :
            /\ balance(st2, a) = balance(st, a) + (IF a = p.address THEN p.value ELSE 0)
                                                - (IF a = p.sender THEN p.value ELSE 0)
            /\ [Account(st2, a) EXCEPT !.balance = 0] = [Account(st, a) EXCEPT !.balance = 0]
    ELSE st2 = st

\* C27: call takes its snapshot before the value transfer, and makes the
\* transfer before the builtin or the interpreter runs: the interpreter starts
\* on, and the builtin and the plain transfer resolve their snapshot on, the
\* state in which a Transfer value has moved from params.sender to
\* params.address and an Apparent value has not moved, while the snapshot is
\* the state before the transfer
C27_ValueTransferPolicy ==
    [][(next_id' = next_id + 1 /\ Begun.kind = "call") =>
        IF Begun.started
        THEN /\ snapshots' = Append(snapshots, state)
             /\ ValueMoved(state, Begun.params, state')
        ELSE /\ ret'.pre.state = state
             /\ ValueMoved(state, Begun.params, ret'.mid)
             /\ snapshots' = snapshots
             /\ ret'.op \in {"clear", "revert"}
             /\ ret'.op = "clear" => ret'.post.state = ret'.mid
             /\ ret'.op = "revert" => ret'.post.state = state]_vars

\* an interpreter runs for a call that transferred a value, the snapshot
\* holding the state before the transfer
C27_Witness ==
    /\ pc = "vm"
    /\ Len(frames) = 1
    /\ Top.kind = "call"
    /\ Top.params.transfer
    /\ Top.params.value > 0
    /\ snapshots = <<Top.pre.state>>
    /\ balance(state, Top.params.address) = balance(Top.pre.state, Top.params.address) + Top.params.value
    /\ balance(state, Top.params.sender) = balance(Top.pre.state, Top.params.sender) - Top.params.value


\* the value the params p move: the value if transferred, nothing if apparent
Moved(p) == IF p.transfer THEN p.value ELSE 0

\* the observed invocation is a create whose init code succeeded
CreateSucceeded == Observed /\ ret.kind = "create" /\ ret.res.ok

\* the interpreter of the observed invocation moved no balance itself: it made
\* no call, no create and no suicide
NoValueMovedByCode == next_id = ret.id /\ ret.un.suicides = {}

Kept(id) == id \notin history.reverted

CreatedByKept(c) == Kept(c.by)

\* the logs made by invocations that were not reverted and lie in no reverted
\* invocation, in the order they were made
KeptLogs == SelectSeq(history.logged, Kept)

\* the addresses of the contracts created by such invocations, in the order
\* they were created
KeptCreated ==
    LET cs == SelectSeq(history.created, CreatedByKept)
    IN  [i \in 1..Len(cs) |-> cs[i].address]

\* C29: on a successful top-level result Executed.logs and
\* Executed.contracts_created are the logs and the created addresses of the
\* confirmed Substate, which are exactly those made by the invocations that
\* were not reverted and lie in no reverted invocation
C29_ExecutedCarriesConfirmed ==
    (Finalized /\ result.kind = "ok" /\ ret.res.ok) =>
        /\ result.executed.logs = substate.logs
        /\ result.executed.contracts_created = substate.contracts_created
        /\ result.executed.logs = KeptLogs
        /\ result.executed.contracts_created = KeptCreated

\* a transaction succeeded after an invocation of its interpreter made a log
\* and was reverted: its Executed is without that log
C29_Witness ==
    /\ Finalized
    /\ result.kind = "ok"
    /\ ret.res.ok
    /\ history.logged # <<>>
    /\ \A i \in 1..Len(history.logged) : history.logged[i] \in history.reverted
    /\ result.executed.logs = <<>>



\* C30: the Executive transact runs call or create on, built by new, has depth
\* 0; the Executive of a nested call or create, built by from_parent, has depth
\* one more than the Executive whose interpreter made it; and no step changes
\* the depth of an Executive that is executing
C30_DepthBookkeeping ==
    [][/\ (tx' # NoTx /\ frames' # <<>>) => frames'[1].depth = 0
       /\ \A i \in 2..Len(frames') : frames'[i].depth = frames'[i - 1].depth + 1
       /\ \A i \in 1..Min(Len(frames), Len(frames')) : frames'[i].depth = frames[i].depth
       /\ (ret' # ret /\ ret'.id # 0) =>
            IF Len(frames') < Len(frames) THEN ret'.depth = Top.depth
            ELSE IF frames' # <<>> THEN ret'.depth = Last(frames').depth + 1
            ELSE IF tx' # NoTx THEN ret'.depth = 0
            ELSE ret'.depth \in Depths]_vars

\* a nested invocation returned to an interpreter that is itself nested in
\* the transaction's
C30_Witness ==
    /\ tx # NoTx
    /\ pc = "vm"
    /\ Len(frames) = 2
    /\ frames[1].depth = 0
    /\ frames[2].depth = 1
    /\ Observed
    /\ ret.depth = 2


\* C31: a creation transaction deploys at contract_address(sender, n), n being
\* the nonce of the sender's account when transact is called, before transact
\* increments it: the address is determined by the sender and that nonce,
\* whatever the other accounts, the block and the rest of the transaction are
C31_AddressDeterministic ==
    (Dispatched /\ tx.t.create) =>
        /\ TopLevel.kind = "create"
        /\ TopLevel.params.address = contract_address(Sender, nonce(begin.state, Sender))
        /\ TopLevel.params.code_address = TopLevel.params.address
        /\ TopLevel.params.sender = Sender
        /\ nonce(TopLevel.pre.state, Sender) = nonce(begin.state, Sender) + 1

\* a sender whose nonce was 2 created a contract at the address of (sender, 2),
\* where an account existed already, with a transaction of another nonce
C31_Witness ==
    /\ Finalized
    /\ tx.t.create
    /\ ~tx.check_nonce
    /\ nonce(begin.state, Sender) = 2
    /\ tx.t.nonce # 2
    /\ contract_address(Sender, 2) \in DOMAIN begin.state
    /\ contract_address(Sender, 1) \in DOMAIN begin.state
    /\ ret.res.ok
    /\ ret.params.address = contract_address(Sender, 2)
    /\ code(state, contract_address(Sender, 2))


\* the tracer that received the trace of the observed invocation is a
\* recording one
Recorded == IF frames = <<>> THEN trace # <<>> ELSE Last(tracers).recording

\* the trace of the observed invocation: the one of Executed, or the last one
\* of the tracer of the interpreter it returned to
Node == IF frames = <<>> THEN trace[1] ELSE Last(Last(tracers).traces)

\* C32: the trace of a call or create that ran code and succeeded records as
\* gas_used the gas of its params less the gas_left it returned
C32_TraceGasUsed ==
    (Observed /\ ret.path = "code" /\ ret.res.ok /\ Recorded) =>
        /\ ~Node.failed
        /\ Node.kind = ret.kind
        /\ Node.gas = ret.params.gas
        /\ Node.gas_used = ret.params.gas - ret.res.gas_left
        /\ Node.gas_used + ret.res.gas_left = ret.params.gas

\* the trace of a transaction that spent part of its gas on a nested
\* invocation and returned the rest
C32_Witness ==
    /\ Finalized
    /\ ret.path = "code"
    /\ ret.res.ok
    /\ trace # <<>>
    /\ trace[1].gas_used > 0
    /\ ret.res.gas_left > 0
    /\ trace[1].subs # <<>>


\* every sub-trace of the trace t, at every level, has the depth of its parent plus 1
RECURSIVE SubDepthsFollow(_)
SubDepthsFollow(t) ==
    \A i \in 1..Len(t.subs) : t.subs[i].depth = t.depth + 1 /\ SubDepthsFollow(t.subs[i])

\* the traces tr2 are the traces tr followed by one trace
OneAppended(tr, tr2) == Len(tr2) = Len(tr) + 1 /\ SubSeq(tr2, 1, Len(tr)) = tr

\* C33: under a recording tracer the traces of the invocations nested in a
\* call or create that runs code are collected, in the order the invocations
\* return, in the subtracer of that call or create and nowhere else; when it
\* returns, failed or not, its own trace takes them as its subs and is added
\* to the tracer of its caller; every trace has the depth of the Executive
\* that produced it and every sub-trace the depth of its parent plus 1
C33_TraceTreeShape ==
    [][(tracers # <<>> /\ tracers[1].recording) =>
        LET n == Len(frames)
        IN  /\ \A i \in 1..Len(tracers') : \A k \in 1..Len(tracers'[i].traces) :
                  /\ tracers'[i].traces[k].depth = i - 1
                  /\ SubDepthsFollow(tracers'[i].traces[k])
            /\ \A k \in 1..Len(trace') : trace'[k].depth = 0 /\ SubDepthsFollow(trace'[k])
            /\ Len(frames') > n =>
                  /\ Front(tracers') = tracers
                  /\ Last(tracers') = ExecutiveTracer
            /\ (Len(frames') = n /\ tracers' # tracers) =>
                  /\ Front(tracers') = Front(tracers)
                  /\ OneAppended(Last(tracers).traces, Last(tracers').traces)
                  /\ Last(Last(tracers').traces).subs = <<>>
            /\ (Len(frames') < n /\ n > 1) =>
                  /\ Len(tracers') = n
                  /\ Front(tracers') = SubSeq(tracers, 1, n - 1)
                  /\ OneAppended(tracers[n].traces, tracers'[n].traces)
                  /\ Last(tracers'[n].traces).subs = tracers[n + 1].traces
                  /\ Last(tracers'[n].traces).to = Top.params.address
                  /\ Last(tracers'[n].traces).failed = ~ret'.res.ok
            /\ (Len(frames') < n /\ n = 1) =>
                  /\ tracers' = <<>>
                  /\ Len(trace') = 1
                  /\ trace'[1].subs = tracers[2].traces
                  /\ trace'[1].to = Top.params.address
                  /\ trace'[1].failed = ~ret'.res.ok]_vars

\* the trace of a transaction that failed carries the traces of two
\* invocations its interpreter made, in the order it made them
C33_Witness ==
    /\ Finalized
    /\ ~ret.res.ok
    /\ trace # <<>>
    /\ trace[1].failed
    /\ Len(trace[1].subs) = 2
    /\ trace[1].subs[1].to # trace[1].subs[2].to
    /\ trace[1].subs[1].depth = 1


\* C35 as stated, for the operations of transact up to the dispatch: for a
\* transaction that passes validation t.gas - base_gas_required, the U256 sum
\* gas_used + t.gas compared with the limit, and the narrowing of
\* gas * gas_price to 256 bits for the debit yield their mathematical values
C35_ArithmeticExact ==
    pc = "dispatch" =>
        /\ (tx.t.gas - schedule.tx_gas) % U256Modulus = tx.t.gas - schedule.tx_gas
        /\ u256_add(info.gas_used, tx.t.gas) = info.gas_used + tx.t.gas
        /\ u512_mul(tx.t.gas, tx.t.gas_price) = tx.t.gas * tx.t.gas_price
        /\ u512_mul(tx.t.gas, tx.t.gas_price) % U256Modulus = tx.t.gas * tx.t.gas_price
        /\ balance(state, Sender) = balance(begin.state, Sender) - tx.t.gas * tx.t.gas_price


\* what finalize added to the balance of a
Credited(a) == balance(state, a) - balance(ret.post.state, a)

\* C36: for every top-level result the amount finalize credits to the sender
\* and the amount it credits to the author add up to gas * gas_price, the
\* amount debited up front: the two values finalize computes add up to it, and
\* where neither account is removed as suicided the balances grew by it in
\* total, no other surviving account changing
C36_FeeConservation ==
    Finalized =>
        /\ gas_accounting(tx.t, substate, ret.res).refund_value
           + gas_accounting(tx.t, substate, ret.res).fees_value = tx.t.gas * tx.t.gas_price
        /\ {Sender, info.author} \cap substate.suicides = {} =>
             /\ IF info.author = Sender
                THEN Credited(Sender) = tx.t.gas * tx.t.gas_price
                ELSE Credited(Sender) + Credited(info.author) = tx.t.gas * tx.t.gas_price
             /\ \A a \in DOMAIN state \ {Sender, info.author} : Credited(a) = 0

\* after a VM error with a refund the sender and a different author were both
\* credited, together for all of the gas paid for
C36_Witness ==
    /\ Finalized
    /\ ~ret.res.ok
    /\ info.author # Sender
    /\ {Sender, info.author} \cap substate.suicides = {}
    /\ tx.t.gas_price = 2
    /\ Credited(Sender) > 0
    /\ Credited(info.author) > 0
    /\ Credited(Sender) + Credited(info.author) = tx.t.gas * 2


\* the ids of the running invocation frames[i] and of the invocations below
\* it that have returned
Subtree(i) ==
    frames[i].id..(IF i < Len(frames) THEN frames[i + 1].id - 1 ELSE next_id)

\* the logs made in the set of invocations ids by invocations that were not
\* reverted and lie in no reverted invocation, in the order they were made
KeptLogsOf(ids) == SelectSeq(history.logged, LAMBDA id : id \in ids /\ Kept(id))

\* the addresses created by such invocations of ids
KeptCreatedOf(ids) ==
    LET cs == SelectSeq(history.created, LAMBDA c : c.by \in ids /\ Kept(c.by))
    IN  [k \in 1..Len(cs) |-> cs[k].address]

\* C37: the rollback is transitive over nesting. An invocation that is
\* reverted leaves the world state and its caller's Substate as they were
\* before it began, whatever the invocations it made had confirmed; the Substate
\* of every running invocation holds the logs and created contracts of its
\* subtree less those of reverted invocations and of everything below them;
\* and the Substate finalize gets holds nothing of a reverted subtree
C37_RollbackTransitive ==
    /\ Reverted =>
         /\ ret.post.state = ret.pre.state
         /\ ret.post.substate = ret.pre.substate
         /\ ret.path = "code" => \A id \in ret.id..next_id : ~Kept(id)
    /\ \A i \in 1..Len(frames) :
         /\ frames[i].un.logs = KeptLogsOf(Subtree(i))
         /\ frames[i].un.contracts_created = KeptCreatedOf(Subtree(i))
    /\ Finalized =>
         /\ substate.logs = KeptLogs
         /\ substate.contracts_created = KeptCreated
         /\ \A k \in 1..Len(substate.logs) : Kept(substate.logs[k])

\* a nested invocation was reverted after a create it had made was confirmed
\* and had put code at its address: the code, the created address and the
\* caller's Substate are as before the reverted invocation
C37_Witness ==
    /\ Reverted
    /\ ret.depth > 0
    /\ ret.un.contracts_created # <<>>
    /\ code(ret.mid, ret.un.contracts_created[1])
    /\ ~code(state, ret.un.contracts_created[1])
    /\ Top.un.contracts_created = <<>>


\* C38 as stated: for every Executed, cumulative_gas_used is the gas the block
\* had used before plus Executed.gas_used, and it does not exceed the block
\* gas limit
C38_CumulativeGasBounded ==
    (pc = "done" /\ result.kind = "ok") =>
        /\ result.executed.cumulative_gas_used = info.gas_used + result.executed.gas_used
        /\ result.executed.cumulative_gas_used <= info.gas_limit


\* the traces the tracer tr holds when the top-level call or create of the
\* transaction t has returned without running code
TopLevelTraces(t, check_nonce, tr) ==
    transact_dispatch([state |-> state, snapshots |-> snapshots], info, t, check_nonce,
                      tr).c.tracer.traces

\* the trace node is the one of the top-level invocation that returned
TopLevelNode(node, r) ==
    /\ node.depth = 0
    /\ node.kind = r.kind
    /\ node.to = r.params.address
    /\ node.failed = ~r.res.ok

C34_ResetClears ==
    /\ returned.op = "clear" => collection = new
    /\ returned.op = "reset_to" => collection = [new EXCEPT !.heads = returned.hashes]
    /\ returned.op \in {"clear", "reset_to"} =>
         /\ DOMAIN collection.blocks = {}
         /\ DOMAIN collection.parents = {}
         /\ DOMAIN collection.header_ids = {}
         /\ collection.head = None
         /\ collection.downloading_headers = {}
         /\ collection.downloading_bodies = {}
         /\ returned.op = "clear" => collection.heads = <<>>

\* reset_to was given two heads when the collection held blocks, and left
\* the two heads alone
C34_Witness ==
    /\ returned.op = "reset_to"
    /\ returned.removed # {}
    /\ Len(returned.hashes) = 2
    /\ collection.heads = returned.hashes
    /\ DOMAIN collection.blocks = {}

====
